---- MODULE Spec2Model ----
(***************************************************************************)
(* PyStele: the content-addressed checkpoint store (checkpoint/save.py,    *)
(* checkpoint/restore.py).                                                 *)
(*                                                                         *)
(* Bytes are integers 0..255 and byte strings are sequences of them.       *)
(* Python text is kept as the sequence of its UTF-8 bytes (ASCII only).    *)
(* SHA-256 is idealised as a collision-free digest: the digest of a byte   *)
(* string is a record that holds the hashed bytes, so two digests are      *)
(* equal exactly when the hashed inputs are equal.                         *)
(***************************************************************************)
EXTENDS Integers, Sequences, FiniteSets, TLC

(***************************************************************************)
(* Python values.  One record shape for every kind, so that any two values *)
(* can be compared: kind is type(v).__name__, n the number of an int or    *)
(* bool, s the bytes of a str or the buffer of an ndarray, keys and items  *)
(* the keys and values of a dict in insertion order, items the members of  *)
(* a list or tuple.                                                        *)
(***************************************************************************)
PyVal(kind, n, s, keys, items) ==
    [kind |-> kind, n |-> n, s |-> s, keys |-> keys, items |-> items]

PyNone == PyVal("NoneType", 0, <<>>, <<>>, <<>>)

PyBool(b) == PyVal("bool", IF b THEN 1 ELSE 0, <<>>, <<>>, <<>>)

PyInt(n) == PyVal("int", n, <<>>, <<>>, <<>>)

PyStr(s) == PyVal("str", 0, s, <<>>, <<>>)

PyList(items) == PyVal("list", 0, <<>>, <<>>, items)

PyTuple(items) == PyVal("tuple", 0, <<>>, <<>>, items)

PyDict(keys, items) == PyVal("dict", 0, <<>>, keys, items)

NdArray(buf) == PyVal("ndarray", 0, buf, <<>>, <<>>)

PyFunction == PyVal("function", 0, <<>>, <<>>, <<>>)

PyGenerator == PyVal("generator", 0, <<>>, <<>>, <<>>)

\* Python's == on two values of the model: a record comparison, so a list
\* never equals a tuple and two dicts are equal whatever their insertion order.
RECURSIVE PyEq(_, _)
PyEq(a, b) ==
    /\ a.kind = b.kind
    /\ a.n = b.n
    /\ a.s = b.s
    /\ Len(a.items) = Len(b.items)
    /\ IF a.kind = "dict"
       THEN /\ \A i \in 1..Len(a.keys) :
                 \E j \in 1..Len(b.keys) :
                     PyEq(a.keys[i], b.keys[j]) /\ PyEq(a.items[i], b.items[j])
       ELSE \A i \in 1..Len(a.items) : PyEq(a.items[i], b.items[i])

\* d[k] for a dict d that holds the key k.
DictGet(d, k) == d.items[CHOOSE i \in 1..Len(d.keys) : d.keys[i] = k]

DictHas(d, k) == \E i \in 1..Len(d.keys) : d.keys[i] = k

\* d[k] = v: a new key goes last, an old key keeps its place.
DictSet(d, k, v) ==
    IF DictHas(d, k)
    THEN PyDict(d.keys,
                [i \in 1..Len(d.items) |-> IF d.keys[i] = k THEN v ELSE d.items[i]])
    ELSE PyDict(Append(d.keys, k), Append(d.items, v))

(***************************************************************************)
(* Ordering of text: Python compares str by code point, lexicographically. *)
(***************************************************************************)
StrLess(a, b) ==
    \E i \in 1..(Len(a) + 1) :
        /\ i <= Len(b)
        /\ \A j \in 1..(i - 1) : a[j] = b[j]
        /\ (i = Len(a) + 1 \/ a[i] < b[i])

RECURSIVE Insert(_, _)
Insert(sortedSeq, k) ==
    IF sortedSeq = <<>> THEN <<k>>
    ELSE IF StrLess(k.s, Head(sortedSeq).s) THEN <<k>> \o sortedSeq
    ELSE <<Head(sortedSeq)>> \o Insert(Tail(sortedSeq), k)

\* sorted(keys) for a sequence of str values.
RECURSIVE sorted(_)
sorted(keys) ==
    IF keys = <<>> THEN <<>> ELSE Insert(sorted(Tail(keys)), Head(keys))

(***************************************************************************)
(* The safety classifier.                                                   *)
(***************************************************************************)
SAFE_PRIMITIVES == {"int", "float", "bool", "str", "NoneType", "bytes"}

_is_numpy_array(obj) == obj.kind = "ndarray"

RECURSIVE _is_safe(_)
_is_safe(obj) ==
    IF _is_numpy_array(obj) THEN TRUE
    ELSE IF obj.kind \in SAFE_PRIMITIVES THEN TRUE
    ELSE IF obj.kind \in {"list", "tuple"}
         THEN \A i \in 1..Len(obj.items) : _is_safe(obj.items[i])
    ELSE IF obj.kind = "dict"
         THEN \A i \in 1..Len(obj.keys) :
                  obj.keys[i].kind = "str" /\ _is_safe(obj.items[i])
    ELSE FALSE

(***************************************************************************)
(* Results of an encoder or decoder: err is "" on success and the name of  *)
(* the raised exception otherwise.                                         *)
(***************************************************************************)
Ok(data) == [err |-> "", data |-> data]

Raise(name) == [err |-> name, data |-> <<>>]

\* The k bytes of the unsigned number n, most significant first.
BigEndian(n, k) == [i \in 1..k |-> (n \div (256 ^ (k - i))) % 256]

\* The unsigned number of the bytes bs, most significant first.
RECURSIVE FromBigEndian(_)
FromBigEndian(bs) ==
    IF bs = <<>> THEN 0
    ELSE 256 * FromBigEndian(SubSeq(bs, 1, Len(bs) - 1)) + bs[Len(bs)]

(***************************************************************************)
(* msgpack.packb(obj, use_bin_type=True): the MessagePack bytes of the     *)
(* kinds of the model.  A list and a tuple are both written as an array;   *)
(* a dict is written as a map whose pairs follow the dict's own order.     *)
(* The ints of the model lie in -32768..65535 (the 8 and 16 bit formats).  *)
(***************************************************************************)
pack_int(n) ==
    IF 0 <= n /\ n < 128 THEN <<n>>
    ELSE IF -32 <= n /\ n < 0 THEN <<256 + n>>
    ELSE IF 128 <= n /\ n <= 255 THEN <<204, n>>
    ELSE IF -128 <= n /\ n < 0 THEN <<208, 256 + n>>
    ELSE IF 255 < n /\ n <= 65535 THEN <<205>> \o BigEndian(n, 2)
    ELSE <<209>> \o BigEndian(65536 + n, 2)

RECURSIVE packb(_)
RECURSIVE pack_array(_)
RECURSIVE pack_map(_, _)
packb(obj) ==
    CASE obj.kind = "NoneType" -> Ok(<<192>>)
      [] obj.kind = "bool" -> Ok(<<194 + obj.n>>)
      [] obj.kind = "int" -> Ok(pack_int(obj.n))
      [] obj.kind = "str" ->
            Ok((IF Len(obj.s) < 32 THEN <<160 + Len(obj.s)>>
                ELSE <<217, Len(obj.s)>>) \o obj.s)
      [] obj.kind \in {"list", "tuple"} ->
            LET r == pack_array(obj.items)
            IN  IF r.err # "" THEN r
                ELSE Ok(<<144 + Len(obj.items)>> \o r.data)
      [] obj.kind = "dict" ->
            LET r == pack_map(obj.keys, obj.items)
            IN  IF r.err # "" THEN r
                ELSE Ok(<<128 + Len(obj.keys)>> \o r.data)
      [] OTHER -> Raise("TypeError")

pack_array(items) ==
    IF items = <<>> THEN Ok(<<>>)
    ELSE LET h == packb(Head(items))
             t == pack_array(Tail(items))
         IN  IF h.err # "" THEN h
             ELSE IF t.err # "" THEN t
             ELSE Ok(h.data \o t.data)

pack_map(keys, items) ==
    IF keys = <<>> THEN Ok(<<>>)
    ELSE LET k == packb(Head(keys))
             v == packb(Head(items))
             t == pack_map(Tail(keys), Tail(items))
         IN  IF k.err # "" THEN k
             ELSE IF v.err # "" THEN v
             ELSE IF t.err # "" THEN t
             ELSE Ok(k.data \o v.data \o t.data)

(***************************************************************************)
(* numpy.save(buf, arr, allow_pickle=False) for a one-dimensional uint8    *)
(* array: the magic string, the format version, the shape, the buffer.     *)
(* The textual header of the real format is abridged to the shape byte.    *)
(***************************************************************************)
NpyMagic == <<147, 78, 85, 77, 80, 89, 1, 0>>

_serialize_numpy_array(arr) == Ok(NpyMagic \o <<Len(arr.s)>> \o arr.s)

_serialize(obj) ==
    IF _is_numpy_array(obj) THEN _serialize_numpy_array(obj) ELSE packb(obj)

\* numpy.load(io.BytesIO(data), allow_pickle=False)
np_load(data) ==
    IF /\ Len(data) >= Len(NpyMagic) + 1
       /\ SubSeq(data, 1, Len(NpyMagic)) = NpyMagic
       /\ Len(data) = Len(NpyMagic) + 1 + data[Len(NpyMagic) + 1]
    THEN [err |-> "", val |-> NdArray(SubSeq(data, Len(NpyMagic) + 2, Len(data)))]
    ELSE [err |-> "ValueError", val |-> PyNone]

(***************************************************************************)
(* msgpack.unpackb(data, raw=False).  unpack_one reads one object from the *)
(* front of data and returns it with the bytes that follow it; an array    *)
(* always comes back as a list.                                            *)
(***************************************************************************)
Got(val, rest) == [err |-> "", val |-> val, vals |-> <<>>, rest |-> rest]

GotAll(vals, rest) == [err |-> "", val |-> PyNone, vals |-> vals, rest |-> rest]

Bad(name) == [err |-> name, val |-> PyNone, vals |-> <<>>, rest |-> <<>>]

\* The elements at the odd (r = 1) or even (r = 0) places of a sequence.
Every2nd(seq, r) == [i \in 1..(Len(seq) \div 2) |-> seq[2 * i - r]]

RECURSIVE unpack_one(_)
RECURSIVE unpack_n(_, _)
unpack_one(data) ==
    IF data = <<>> THEN Bad("ValueError")
    ELSE
    LET b    == Head(data)
        rest == Tail(data)
        uint(k) == IF Len(rest) < k THEN Bad("ValueError")
                   ELSE Got(PyInt(FromBigEndian(SubSeq(rest, 1, k))),
                            SubSeq(rest, k + 1, Len(rest)))
        sint(k) == IF Len(rest) < k THEN Bad("ValueError")
                   ELSE LET u == FromBigEndian(SubSeq(rest, 1, k))
                            half == 256 ^ k \div 2
                        IN  Got(PyInt(IF u >= half THEN (u - half) - half ELSE u),
                                SubSeq(rest, k + 1, Len(rest)))
        str(n, from) == IF Len(rest) < from + n - 1 THEN Bad("ValueError")
                        ELSE Got(PyStr(SubSeq(rest, from, from + n - 1)),
                                 SubSeq(rest, from + n, Len(rest)))
    IN  CASE b < 128 -> Got(PyInt(b), rest)
          [] b >= 224 -> Got(PyInt(b - 256), rest)
          [] b = 192 -> Got(PyNone, rest)
          [] b = 194 -> Got(PyBool(FALSE), rest)
          [] b = 195 -> Got(PyBool(TRUE), rest)
          [] b = 204 -> uint(1)
          [] b = 205 -> uint(2)
          [] b = 208 -> sint(1)
          [] b = 209 -> sint(2)
          [] 160 <= b /\ b < 192 -> str(b - 160, 1)
          [] b = 217 -> IF rest = <<>> THEN Bad("ValueError") ELSE str(rest[1], 2)
          [] 144 <= b /\ b < 160 ->
                LET r == unpack_n(rest, b - 144)
                IN  IF r.err # "" THEN r ELSE Got(PyList(r.vals), r.rest)
          [] 128 <= b /\ b < 144 ->
                LET r == unpack_n(rest, 2 * (b - 128))
                IN  IF r.err # "" THEN r
                    ELSE IF \E i \in 1..(b - 128) : r.vals[2 * i - 1].kind # "str"
                    THEN Bad("ValueError")
                    ELSE Got(PyDict(Every2nd(r.vals, 1), Every2nd(r.vals, 0)), r.rest)
          [] OTHER -> Bad("ValueError")

unpack_n(data, n) ==
    IF n = 0 THEN GotAll(<<>>, data)
    ELSE LET h == unpack_one(data)
         IN  IF h.err # "" THEN h
             ELSE LET t == unpack_n(h.rest, n - 1)
                  IN  IF t.err # "" THEN t
                      ELSE GotAll(<<h.val>> \o t.vals, t.rest)

unpackb(data) ==
    LET r == unpack_one(data)
    IN  IF r.err # "" THEN [err |-> r.err, val |-> PyNone]
        ELSE IF r.rest # <<>> THEN [err |-> "ExtraData", val |-> PyNone]
        ELSE [err |-> "", val |-> r.val]

(***************************************************************************)
(* json.dumps(obj, sort_keys=True): the default separators ", " and ": ",  *)
(* the keys of every dict in ascending order.                              *)
(***************************************************************************)
Digits(n) ==
    LET RECURSIVE dig(_)
        dig(m) == IF m < 10 THEN <<48 + m>> ELSE dig(m \div 10) \o <<48 + (m % 10)>>
    IN  IF n < 0 THEN <<45>> \o dig(-n) ELSE dig(n)

\* The text of a JSON string: the quote, the backslash and the control
\* characters \n, \r, \t are escaped.
RECURSIVE json_escape(_)
json_escape(s) ==
    IF s = <<>> THEN <<>>
    ELSE (CASE Head(s) = 34 -> <<92, 34>>
            [] Head(s) = 92 -> <<92, 92>>
            [] Head(s) = 10 -> <<92, 110>>
            [] Head(s) = 13 -> <<92, 114>>
            [] Head(s) = 9 -> <<92, 116>>
            [] OTHER -> <<Head(s)>>) \o json_escape(Tail(s))

RECURSIVE json_dumps(_)
RECURSIVE dumps_array(_)
RECURSIVE dumps_object(_, _)
json_dumps(obj) ==
    CASE obj.kind = "NoneType" -> <<110, 117, 108, 108>>
      [] obj.kind = "bool" ->
            IF obj.n = 1 THEN <<116, 114, 117, 101>> ELSE <<102, 97, 108, 115, 101>>
      [] obj.kind = "int" -> Digits(obj.n)
      [] obj.kind = "str" -> <<34>> \o json_escape(obj.s) \o <<34>>
      [] obj.kind \in {"list", "tuple"} -> <<91>> \o dumps_array(obj.items) \o <<93>>
      [] obj.kind = "dict" ->
            <<123>> \o dumps_object(obj, sorted(obj.keys)) \o <<125>>

dumps_array(items) ==
    IF items = <<>> THEN <<>>
    ELSE json_dumps(Head(items))
         \o (IF Len(items) > 1 THEN <<44, 32>> ELSE <<>>)
         \o dumps_array(Tail(items))

dumps_object(d, keys) ==
    IF keys = <<>> THEN <<>>
    ELSE json_dumps(Head(keys)) \o <<58, 32>> \o json_dumps(DictGet(d, Head(keys)))
         \o (IF Len(keys) > 1 THEN <<44, 32>> ELSE <<>>)
         \o dumps_object(d, Tail(keys))

(***************************************************************************)
(* json.load: objects, arrays, strings, integers and the three literals,   *)
(* with insignificant whitespace between tokens.  A control character in a *)
(* string, a bad escape, a missing separator or text after the value is a  *)
(* JSONDecodeError.  Fractions, exponents and \u escapes are not modelled  *)
(* and are rejected.                                                       *)
(***************************************************************************)
JsonWs == {32, 9, 10, 13}

RECURSIVE skip_ws(_)
skip_ws(data) ==
    IF data # <<>> /\ Head(data) \in JsonWs THEN skip_ws(Tail(data)) ELSE data

StartsWith(data, word) ==
    Len(data) >= Len(word) /\ SubSeq(data, 1, Len(word)) = word

Drop(data, k) == SubSeq(data, k + 1, Len(data))

\* The string whose opening quote has just been read.
RECURSIVE scan_string(_, _)
scan_string(data, acc) ==
    IF data = <<>> THEN Bad("JSONDecodeError")
    ELSE IF Head(data) = 34 THEN Got(PyStr(acc), Tail(data))
    ELSE IF Head(data) < 32 THEN Bad("JSONDecodeError")
    ELSE IF Head(data) = 92
         THEN IF Len(data) < 2 THEN Bad("JSONDecodeError")
              ELSE LET e == data[2]
                       c == CASE e = 34 -> 34
                              [] e = 92 -> 92
                              [] e = 47 -> 47
                              [] e = 98 -> 8
                              [] e = 102 -> 12
                              [] e = 110 -> 10
                              [] e = 114 -> 13
                              [] e = 116 -> 9
                              [] OTHER -> -1
                   IN  IF c < 0 THEN Bad("JSONDecodeError")
                       ELSE scan_string(Drop(data, 2), Append(acc, c))
    ELSE scan_string(Tail(data), Append(acc, Head(data)))

\* The digits at the front of data, as a number, and what follows them.
RECURSIVE scan_digits(_, _)
scan_digits(data, acc) ==
    IF data # <<>> /\ Head(data) >= 48 /\ Head(data) <= 57
    THEN scan_digits(Tail(data), 10 * acc + (Head(data) - 48))
    ELSE Got(PyInt(acc), data)

scan_number(data) ==
    LET neg  == Head(data) = 45
        body == IF neg THEN Tail(data) ELSE data
    IN  IF body = <<>> \/ Head(body) < 48 \/ Head(body) > 57
        THEN Bad("JSONDecodeError")
        ELSE LET r == IF Head(body) = 48 THEN Got(PyInt(0), Tail(body))
                      ELSE scan_digits(body, 0)
             IN  IF r.rest # <<>> /\ Head(r.rest) \in {46, 69, 101}
                 THEN Bad("JSONDecodeError")
                 ELSE Got(PyInt(IF neg THEN -r.val.n ELSE r.val.n), r.rest)

RECURSIVE parse_value(_)
RECURSIVE parse_elements(_, _)
RECURSIVE parse_members(_, _)
parse_value(text) ==
    LET data == skip_ws(text)
    IN  IF data = <<>> THEN Bad("JSONDecodeError")
        ELSE CASE Head(data) = 34 -> scan_string(Tail(data), <<>>)
               [] Head(data) = 91 ->
                     LET inner == skip_ws(Tail(data))
                     IN  IF inner # <<>> /\ Head(inner) = 93
                         THEN Got(PyList(<<>>), Tail(inner))
                         ELSE parse_elements(inner, <<>>)
               [] Head(data) = 123 ->
                     LET inner == skip_ws(Tail(data))
                     IN  IF inner # <<>> /\ Head(inner) = 125
                         THEN Got(PyDict(<<>>, <<>>), Tail(inner))
                         ELSE parse_members(inner, PyDict(<<>>, <<>>))
               [] Head(data) = 45 \/ (Head(data) >= 48 /\ Head(data) <= 57) ->
                     scan_number(data)
               [] StartsWith(data, <<116, 114, 117, 101>>) ->
                     Got(PyBool(TRUE), Drop(data, 4))
               [] StartsWith(data, <<102, 97, 108, 115, 101>>) ->
                     Got(PyBool(FALSE), Drop(data, 5))
               [] StartsWith(data, <<110, 117, 108, 108>>) ->
                     Got(PyNone, Drop(data, 4))
               [] OTHER -> Bad("JSONDecodeError")

\* The elements of an array from its next element to its closing bracket.
parse_elements(data, acc) ==
    LET v == parse_value(data)
    IN  IF v.err # "" THEN v
        ELSE LET after == skip_ws(v.rest)
             IN  IF after = <<>> THEN Bad("JSONDecodeError")
                 ELSE IF Head(after) = 93
                      THEN Got(PyList(Append(acc, v.val)), Tail(after))
                 ELSE IF Head(after) = 44
                      THEN parse_elements(Tail(after), Append(acc, v.val))
                 ELSE Bad("JSONDecodeError")

\* The members of an object from its next key to its closing brace; a
\* repeated key keeps its last value.
parse_members(data, acc) ==
    IF data = <<>> \/ Head(data) # 34 THEN Bad("JSONDecodeError")
    ELSE LET k == scan_string(Tail(data), <<>>)
         IN  IF k.err # "" THEN k
             ELSE LET colon == skip_ws(k.rest)
                  IN  IF colon = <<>> \/ Head(colon) # 58 THEN Bad("JSONDecodeError")
                      ELSE LET v == parse_value(Tail(colon))
                           IN  IF v.err # "" THEN v
                               ELSE LET after == skip_ws(v.rest)
                                        d == DictSet(acc, k.val, v.val)
                                    IN  IF after = <<>> THEN Bad("JSONDecodeError")
                                        ELSE IF Head(after) = 125
                                             THEN Got(d, Tail(after))
                                        ELSE IF Head(after) = 44
                                             THEN parse_members(skip_ws(Tail(after)), d)
                                        ELSE Bad("JSONDecodeError")

json_load(text) ==
    LET r == parse_value(text)
    IN  IF r.err # "" THEN [err |-> r.err, val |-> PyNone]
        ELSE IF skip_ws(r.rest) # <<>> THEN [err |-> "JSONDecodeError", val |-> PyNone]
        ELSE [err |-> "", val |-> r.val]

(***************************************************************************)
(* hashlib.sha256(data).hexdigest(), idealised: see the head of the file.  *)
(***************************************************************************)
Sha256(data) == [sha256 |-> data]

NoDigest == [sha256 |-> <<-1>>]

(***************************************************************************)
(* save_checkpoint, steps 1 to 6: everything it computes before it looks   *)
(* at the file system.                                                     *)
(***************************************************************************)
\* An include argument: None, or a list of names.
NoInclude == [given |-> FALSE, names |-> <<>>]

Include(names) == [given |-> TRUE, names |-> names]

\* {k: namespace[k] for k in include if k in namespace}
RECURSIVE Comprehension(_, _, _)
Comprehension(namespace, names, acc) ==
    IF names = <<>> THEN acc
    ELSE Comprehension(namespace, Tail(names),
                       IF DictHas(namespace, Head(names))
                       THEN DictSet(acc, Head(names), DictGet(namespace, Head(names)))
                       ELSE acc)

SelectItems(namespace, include) ==
    IF ~include.given THEN namespace
    ELSE Comprehension(namespace, include.names, PyDict(<<>>, <<>>))

\* A validation that stops at the first rejected value.
RECURSIVE ValidateFirstOnly(_, _)
ValidateFirstOnly(keys, items) ==
    IF keys = <<>> THEN <<>>
    ELSE IF ~_is_safe(Head(items))
         THEN <<[name |-> Head(keys), type |-> Head(items).kind]>>
         ELSE ValidateFirstOnly(Tail(keys), Tail(items))

\* The errors list: one entry (name, type name) for each selected value the
\* classifier rejects, in the order of the items.
RECURSIVE Validate(_, _)
Validate(keys, items) ==
    IF keys = <<>> THEN <<>>
    ELSE (IF ~_is_safe(Head(items))
          THEN <<[name |-> Head(keys), type |-> Head(items).kind]>>
          ELSE <<>>) \o Validate(Tail(keys), Tail(items))

\* The loop over ordered_keys that fills objects_blob and objects_idx.  An
\* exception of _serialize leaves the loop, and save_checkpoint, at once.
RECURSIVE BuildObjects(_, _, _)
BuildObjects(items, keys, offset) ==
    IF keys = <<>> THEN [err |-> "", blob |-> <<>>, idx |-> <<>>]
    ELSE LET key   == Head(keys)
             value == DictGet(items, key)
             ser   == _serialize(value)
         IN  IF ser.err # "" THEN [err |-> ser.err, blob |-> <<>>, idx |-> <<>>]
             ELSE LET rest == BuildObjects(items, Tail(keys), offset + Len(ser.data))
                      entry == [name   |-> key,
                                offset |-> offset,
                                length |-> Len(ser.data),
                                sha256 |-> Sha256(ser.data),
                                type   |-> IF _is_numpy_array(value)
                                           THEN "numpy" ELSE "msgpack"]
                  IN  IF rest.err # "" THEN rest
                      ELSE [err  |-> "",
                            blob |-> ser.data \o rest.blob,
                            idx  |-> <<entry>> \o rest.idx]

\* "variables", "schema" and "v1" as text.
KeyVariables == PyStr(<<118, 97, 114, 105, 97, 98, 108, 101, 115>>)

KeySchema == PyStr(<<115, 99, 104, 101, 109, 97>>)

SchemaV1 == PyStr(<<118, 49>>)

Manifest(ordered_keys) ==
    PyDict(<<KeyVariables, KeySchema>>, <<PyList(ordered_keys), SchemaV1>>)

\* h = sha256(); h.update(json.dumps(manifest, sort_keys=True)); h.update(blob)
CheckpointId(manifest, objects_blob) == Sha256(json_dumps(manifest) \o objects_blob)

Prepared(err, details, ordered_keys, built) ==
    [err          |-> err,
     details      |-> details,
     manifest     |-> Manifest(ordered_keys),
     objects_blob |-> built.blob,
     objects_idx  |-> built.idx,
     checkpoint_id |-> IF err = "" THEN CheckpointId(Manifest(ordered_keys), built.blob)
                       ELSE NoDigest]

NothingBuilt == [err |-> "", blob |-> <<>>, idx |-> <<>>]

Prepare(namespace, include) ==
    LET items        == SelectItems(namespace, include)
        errors       == Validate(items.keys, items.items)
        ordered_keys == sorted(items.keys)
        built        == BuildObjects(items, ordered_keys, 0)
    IN  IF errors # <<>> THEN Prepared("UnserializableError", errors, <<>>, NothingBuilt)
        ELSE IF built.err # "" THEN Prepared(built.err, <<>>, <<>>, NothingBuilt)
        ELSE Prepared("", <<>>, ordered_keys, built)

(***************************************************************************)
(* The state.  root is the checkpoint root directory as a set of entries   *)
(* (name, files); each save_checkpoint call in progress is a writer with   *)
(* a program counter and its local variables; the restore_checkpoint call  *)
(* under study has its own program counter and locals.                     *)
(***************************************************************************)
VARIABLES
    root_exists,  \* whether the root directory has been created
    root,         \* the directories inside the root
    calls,        \* the number of save_checkpoint calls started so far
    pc,           \* per writer: where its save_checkpoint call stands
    loc,          \* per writer: the arguments and locals of its call
    outcome,      \* per writer: what its last call returned or raised
    damage,       \* restore: the corruption applied to the checkpoint, if any
    target0,      \* restore: target_namespace as it was before the call
    prefix,       \* restore: the prefix argument ("" stands for None)
    target,       \* restore: target_namespace
    rpc,          \* restore: where the call stands
    rloc,         \* restore: the locals manifest, i (loop position), restored
    rout,         \* restore: what the call returned or raised
    is_posix,     \* engine: IS_POSIX, whether the platform has SIGSTOP/SIGCONT
    exec_dir,     \* engine: whether the directory of the execution exists
    meta,         \* engine: meta.json of the execution
    pid_file,     \* engine: the pid file of the execution (0: no such file)
    procs,        \* engine: the child processes spawned for the execution
    audit,        \* engine: audit.log of the execution, one record per line
    ckpt_file,    \* engine: checkpoint.pkl of the execution
    spc,          \* engine: where the supervisor's call of run stands
    runs,         \* engine: the number of calls of run so far
    ops,          \* engine: the number of pause, resume and kill calls so far
    last,         \* engine: what the supervisor's last call returned or raised
    tmp_file,     \* engine: checkpoint.pkl.tmp of the execution
    fd,           \* engine: per child, the file its _atomic_write has open
    touched,      \* engine: per child, whether its attempt changed checkpoint.pkl
    clock,        \* engine: the UTC wall clock
    pending,      \* engine: per writer, the audit record built and not written
    stamps        \* engine: the "ts" of the records of audit.log, in file order

vars == <<root_exists, root, calls, pc, loc, outcome,
          damage, target0, prefix, target, rpc, rloc, rout,
          is_posix, exec_dir, meta, pid_file, procs, audit, ckpt_file,
          spc, runs, ops, last, tmp_file, fd, touched, clock, pending, stamps>>

\* What the steps of _atomic_write act on.
rollVars == <<tmp_file, fd, touched>>

\* What the steps of an audit write act on.
stampVars == <<clock, pending, stamps>>

engineVars == <<is_posix, exec_dir, meta, pid_file, procs, audit, ckpt_file,
                spc, runs, ops, last, rollVars, stampVars>>

saveVars == <<root_exists, root, calls, pc, loc, outcome>>

restoreVars == <<damage, target0, prefix, target, rpc, rloc, rout>>

\* The largest number of save_checkpoint calls in one behaviour.
MaxCalls == 2

\* Two processes call save_checkpoint on the same root.
Writers == {1, 2}

ExecutionId(w) == IF w = 1 THEN "exp1" ELSE "exp2"

(***************************************************************************)
(* Names and values used as inputs.                                        *)
(***************************************************************************)
Name(c) == PyStr(<<c>>)

kA == Name(97)
kB == Name(98)
kF == Name(102)
kG == Name(103)
kM == Name(109)
kQ == Name(113)
kT == Name(116)
kX == Name(120)
kY == Name(121)

\* {"x": 1, "y": [2, 3]} and the same dict built in the other order.
NsXY == PyDict(<<kX, kY>>, <<PyInt(1), PyList(<<PyInt(2), PyInt(3)>>)>>)

NsYX == PyDict(<<kY, kX>>, <<PyList(<<PyInt(2), PyInt(3)>>), PyInt(1)>>)

\* {"m": {"a": 1, "b": 2}} and the same with the inner dict built b first.
NsMab == PyDict(<<kM>>, <<PyDict(<<kA, kB>>, <<PyInt(1), PyInt(2)>>)>>)

NsMba == PyDict(<<kM>>, <<PyDict(<<kB, kA>>, <<PyInt(2), PyInt(1)>>)>>)

\* {"f": <function>, "x": 1, "g": <generator>}
NsUnsafe == PyDict(<<kF, kX, kG>>, <<PyFunction, PyInt(1), PyGenerator>>)

\* The (namespace, include) arguments of the save_checkpoint calls.
SaveInputs ==
    {[namespace |-> ns, include |-> NoInclude] :
        ns \in {NsXY, NsYX, NsMab, NsMba, NsUnsafe}}
    \cup {[namespace |-> NsUnsafe, include |-> Include(<<kX, kF, kQ>>)],
          [namespace |-> NsUnsafe, include |-> Include(<<kX, kQ>>)]}

(***************************************************************************)
(* Directories and files.                                                  *)
(***************************************************************************)
FileNames == {"manifest.json", "metadata.json", "objects.idx", "objects.bin",
              "checksum.sha256"}

NoMetadata == [execution_id |-> "", checkpoint_name |-> "", pid |-> 0]

\* A directory with no file in it.  has is the set of the files present.
NoFiles ==
    [has |-> {}, manifest |-> <<>>, metadata |-> NoMetadata, idx |-> <<>>,
     bin |-> <<>>, checksum |-> NoDigest]

\* os.path.join(path, checkpoint_id)
FinalDir(checkpoint_id) == [tmp |-> 0, id |-> checkpoint_id]

\* The directory tempfile.mkdtemp(prefix="_ckpt_", dir=path) makes for the
\* call numbered c: a name no other directory of the root has.
TmpDir(c) == [tmp |-> c, id |-> NoDigest]

IsFinal(d) == d.name.tmp = 0

DirNamed(name) == CHOOSE d \in root : d.name = name

\* An existence test that never finds the directory.
os_path_exists_never(name) == FALSE

\* os.path.exists(final_dir)
os_path_exists(name) == \E d \in root : d.name = name

\* The root after the file fname of directory name has been written.
WriteFile(name, fname, field, content) ==
    {IF d.name = name
     THEN [d EXCEPT !.files = [@ EXCEPT !.has = @ \cup {fname}, ![field] = content]]
     ELSE d : d \in root}

NoLocals ==
    [namespace |-> PyDict(<<>>, <<>>), include |-> NoInclude, call |-> 0,
     prep |-> Prepared("", <<>>, <<>>, NothingBuilt), metadata |-> NoMetadata,
     tmp_dir |-> FinalDir(NoDigest), rename_failed |-> FALSE, fault |-> FALSE,
     rmtree_failed |-> FALSE]

NoOutcome == [kind |-> "none", value |-> NoDigest, details |-> <<>>]

Returned(checkpoint_id) == [kind |-> "returned", value |-> checkpoint_id, details |-> <<>>]

Raised(exception, details) == [kind |-> exception, value |-> NoDigest, details |-> details]

(***************************************************************************)
(* save_checkpoint, step by step.  Step 7 writes the five files in turn    *)
(* and then renames the directory: the program counter of a writer in step *)
(* 7 is the name of the file it is about to write, or "replace".           *)
(***************************************************************************)
\* An order of writing that renames without writing checksum.sha256.
StepAfterSkipChecksum(step) ==
    CASE step = "manifest.json" -> "metadata.json"
      [] step = "metadata.json" -> "objects.idx"
      [] step = "objects.idx" -> "objects.bin"
      [] step = "objects.bin" -> "replace"
      [] step = "checksum.sha256" -> "replace"

\* The order in which lines 201 to 228 write the files and rename.
StepAfter(step) ==
    CASE step = "manifest.json" -> "metadata.json"
      [] step = "metadata.json" -> "objects.idx"
      [] step = "objects.idx" -> "objects.bin"
      [] step = "objects.bin" -> "checksum.sha256"
      [] step = "checksum.sha256" -> "replace"

\* Lines 77 to 188: makedirs, the caller and environment info, steps 1 to 6,
\* for a call whose arguments are drawn from inputs.
SaveBeginFrom(w, inputs) ==
    /\ pc[w] \in {"idle", "done"}
    /\ calls < MaxCalls
    /\ \E in \in inputs :
          LET prep == Prepare(in.namespace, in.include)
          IN  /\ loc' = [loc EXCEPT ![w] =
                            [NoLocals EXCEPT
                                !.namespace = in.namespace,
                                !.include = in.include,
                                !.call = calls + 1,
                                !.prep = prep,
                                !.metadata = [execution_id    |-> ExecutionId(w),
                                              checkpoint_name |-> "",
                                              pid             |-> w]]]
              /\ IF prep.err = ""
                 THEN /\ pc' = [pc EXCEPT ![w] = "exists"]
                      /\ outcome' = [outcome EXCEPT ![w] = NoOutcome]
                 ELSE /\ pc' = [pc EXCEPT ![w] = "done"]
                      /\ outcome' = [outcome EXCEPT ![w] = Raised(prep.err, prep.details)]
    /\ calls' = calls + 1
    /\ root_exists' = TRUE
    /\ UNCHANGED root
    /\ UNCHANGED <<restoreVars, engineVars>>

SaveBegin(w) == SaveBeginFrom(w, SaveInputs)

\* Lines 190 to 193.
ExistsCheck(w) ==
    /\ pc[w] = "exists"
    /\ IF os_path_exists(FinalDir(loc[w].prep.checkpoint_id))
       THEN /\ pc' = [pc EXCEPT ![w] = "done"]
            /\ outcome' = [outcome EXCEPT ![w] = Returned(loc[w].prep.checkpoint_id)]
       ELSE /\ pc' = [pc EXCEPT ![w] = "mkdtemp"]
            /\ UNCHANGED outcome
    /\ UNCHANGED <<root_exists, root, calls, loc>>
    /\ UNCHANGED <<restoreVars, engineVars>>

\* Line 195.
Mkdtemp(w) ==
    /\ pc[w] = "mkdtemp"
    /\ root' = root \cup {[name |-> TmpDir(loc[w].call), files |-> NoFiles]}
    /\ loc' = [loc EXCEPT ![w].tmp_dir = TmpDir(loc[w].call)]
    /\ pc' = [pc EXCEPT ![w] = "manifest.json"]
    /\ UNCHANGED <<root_exists, calls, outcome>>
    /\ UNCHANGED <<restoreVars, engineVars>>

\* Lines 207 to 219: one file is written, flushed and synced.
WriteStep(w) ==
    /\ pc[w] \in FileNames
    /\ root' =
          CASE pc[w] = "manifest.json" ->
                  WriteFile(loc[w].tmp_dir, pc[w], "manifest",
                            json_dumps(loc[w].prep.manifest))
            [] pc[w] = "metadata.json" ->
                  WriteFile(loc[w].tmp_dir, pc[w], "metadata", loc[w].metadata)
            [] pc[w] = "objects.idx" ->
                  WriteFile(loc[w].tmp_dir, pc[w], "idx", loc[w].prep.objects_idx)
            [] pc[w] = "objects.bin" ->
                  WriteFile(loc[w].tmp_dir, pc[w], "bin", loc[w].prep.objects_blob)
            [] pc[w] = "checksum.sha256" ->
                  WriteFile(loc[w].tmp_dir, pc[w], "checksum", loc[w].prep.checkpoint_id)
    /\ pc' = [pc EXCEPT ![w] = StepAfter(pc[w])]
    /\ UNCHANGED <<root_exists, calls, loc, outcome>>
    /\ UNCHANGED <<restoreVars, engineVars>>

\* Lines 201 to 226: a write, flush or fsync of step 7 raises.
WriteFails(w) ==
    /\ pc[w] \in FileNames
    /\ pc' = [pc EXCEPT ![w] = "except"]
    /\ loc' = [loc EXCEPT ![w].fault = TRUE]
    /\ UNCHANGED <<root_exists, root, calls, outcome>>
    /\ UNCHANGED <<restoreVars, engineVars>>

\* Line 228: os.replace(tmp_dir, final_dir).  The rename is one step of the
\* file system; onto an existing directory that is not empty it fails.
Replace(w) ==
    /\ pc[w] = "replace"
    /\ LET final == FinalDir(loc[w].prep.checkpoint_id)
           staged == DirNamed(loc[w].tmp_dir)
       IN  IF \E d \in root : d.name = final
           THEN /\ pc' = [pc EXCEPT ![w] = "except"]
                /\ loc' = [loc EXCEPT ![w].rename_failed = TRUE]
                /\ UNCHANGED <<root, outcome>>
           ELSE /\ root' = (root \ {staged}) \cup {[name |-> final, files |-> staged.files]}
                /\ pc' = [pc EXCEPT ![w] = "done"]
                /\ outcome' = [outcome EXCEPT ![w] = Returned(loc[w].prep.checkpoint_id)]
                /\ UNCHANGED loc
    /\ UNCHANGED <<root_exists, calls>>
    /\ UNCHANGED <<restoreVars, engineVars>>

\* Line 228 raises for a reason of its own (an I/O error, a patched
\* os.replace as in test_atomic_write_failure).
ReplaceFails(w) ==
    /\ pc[w] = "replace"
    /\ pc' = [pc EXCEPT ![w] = "except"]
    /\ loc' = [loc EXCEPT ![w].rename_failed = TRUE, ![w].fault = TRUE]
    /\ UNCHANGED <<root_exists, root, calls, outcome>>
    /\ UNCHANGED <<restoreVars, engineVars>>

\* A removal that removes nothing.
rmtree_noop(name) == root

\* shutil.rmtree(path): the root without the directory of that name.
rmtree(name) == {d \in root : d.name # name}

\* Lines 230 to 232.
Except(w) ==
    /\ pc[w] = "except"
    /\ root' = rmtree(loc[w].tmp_dir)
    /\ outcome' = [outcome EXCEPT ![w] = Raised("AtomicWriteError", <<>>)]
    /\ pc' = [pc EXCEPT ![w] = "done"]
    /\ UNCHANGED <<root_exists, calls, loc>>
    /\ UNCHANGED <<restoreVars, engineVars>>

\* Lines 230 to 232 when the removal itself fails: ignore_errors=True hides
\* the error and the staging directory stays.  Modelled after a failed
\* rename, where the directory left behind is a complete one; the partly
\* written directories that can be left behind are those of Crash.
ExceptLeavesTmp(w) ==
    /\ pc[w] = "except"
    /\ loc[w].rename_failed
    /\ loc' = [loc EXCEPT ![w].rmtree_failed = TRUE]
    /\ outcome' = [outcome EXCEPT ![w] = Raised("AtomicWriteError", <<>>)]
    /\ pc' = [pc EXCEPT ![w] = "done"]
    /\ UNCHANGED <<root_exists, root, calls>>
    /\ UNCHANGED <<restoreVars, engineVars>>

\* The writing process dies in step 7: its locals are gone, it takes no
\* further step, and whatever it staged stays behind.
Crash(w) ==
    /\ pc[w] \in FileNames \cup {"replace", "except"}
    /\ pc' = [pc EXCEPT ![w] = "crashed"]
    /\ loc' = [loc EXCEPT ![w] = NoLocals]
    /\ outcome' = [outcome EXCEPT ![w] = NoOutcome]
    /\ UNCHANGED <<root_exists, root, calls>>
    /\ UNCHANGED <<restoreVars, engineVars>>

NoDamage == [file |-> "", how |-> "", pos |-> 0, var |-> PyNone]

NoRestoreLocals ==
    [manifest |-> PyNone, objects_idx |-> <<>>, objects_blob |-> <<>>,
     expected_checksum |-> NoDigest, i |-> 0, restored |-> <<>>]

NoResult == [kind |-> "none", var |-> PyNone, restored |-> <<>>]

NoRestore ==
    /\ damage = NoDamage
    /\ target0 = PyDict(<<>>, <<>>)
    /\ prefix = <<>>
    /\ target = PyDict(<<>>, <<>>)
    /\ rpc = "idle"
    /\ rloc = NoRestoreLocals
    /\ rout = NoResult

(***************************************************************************)
(* The execution engine before any call of run: one execution id, no       *)
(* directory for it, no child.  A child is named by its pid, which is its  *)
(* number in the order of spawning.                                        *)
(***************************************************************************)
\* The largest number of pause, resume, kill and status calls in one
\* behaviour.
MaxOps == 2

\* The number of steps of the user function (counter_task's limit).
Limit == 1

\* The pids of the children: that of the first run of the execution and that
\* of its re-run.
Pids == {1, 2}

\* The context dict of counter_task: {} when i is 0, else {"i": i}.
EmptyContext == [i |-> 0]

NoProc ==
    [state    |-> "unborn",       \* unborn, running, stopped, zombie or gone
     cpc      |-> "none",         \* where _child_entry stands
     context  |-> EmptyContext,
     elapsed  |-> 0,              \* _now() - last_ckpt, capped at the cadence
     interval |-> 0]              \* checkpoint_interval_s (0 stands for None)

NoMeta == [exists |-> FALSE, state |-> "", checkpoint_interval_s |-> 0]

\* pickle.dumps(context), protocol 4: {} is EMPTY_DICT; {"i": i} is a frame
\* of ten bytes holding EMPTY_DICT, the key, BININT1 i and SETITEM.
pickle_dumps(context) ==
    IF context.i = 0
    THEN <<128, 4, 125, 148, 46>>
    ELSE <<128, 4, 149, 10, 0, 0, 0, 0, 0, 0, 0,
           125, 148, 140, 1, 105, 148, 75, context.i, 115, 46>>

\* pickle.load(f): the context, or an exception (EOFError, UnpicklingError)
\* when the data do not end with STOP after a whole frame.
pickle_load(data) ==
    IF data = <<128, 4, 125, 148, 46>>
    THEN [raised |-> FALSE, context |-> EmptyContext]
    ELSE IF /\ Len(data) = 21
            /\ SubSeq(data, 1, 18) = <<128, 4, 149, 10, 0, 0, 0, 0, 0, 0, 0,
                                       125, 148, 140, 1, 105, 148, 75>>
            /\ SubSeq(data, 20, 21) = <<115, 46>>
    THEN [raised |-> FALSE, context |-> [i |-> data[19]]]
    ELSE [raised |-> TRUE, context |-> EmptyContext]

\* A file: whether it exists and the bytes it holds.
NoCheckpointFile == [exists |-> FALSE, pickle |-> <<>>]

\* What a child has open: nothing, or the file it opened at the temporary
\* name, which since then may have been renamed to checkpoint.pkl ("path")
\* or replaced there by another file ("orphan").
NoFd == "none"

\* The audit record a writer has built: none.
NoRec == [event |-> "", pid |-> 0, meta |-> "", ts |-> 0]

\* The writers of audit.log: the supervisor (0) and the children.
AuditWriters == {0} \cup Pids

NoCall == [op |-> "none", raised |-> "", state |-> "", pid |-> 0]

NoEngine ==
    /\ exec_dir = FALSE
    /\ meta = NoMeta
    /\ pid_file = 0
    /\ procs = [p \in Pids |-> NoProc]
    /\ audit = <<>>
    /\ ckpt_file = NoCheckpointFile
    /\ tmp_file = NoCheckpointFile
    /\ fd = [p \in Pids |-> NoFd]
    /\ touched = [p \in Pids |-> FALSE]
    /\ clock = 0
    /\ pending = [w \in AuditWriters |-> NoRec]
    /\ stamps = <<>>
    /\ spc = "idle"
    /\ runs = 0
    /\ ops = 0
    /\ last = NoCall

NoStore ==
    /\ root_exists = FALSE
    /\ root = {}
    /\ calls = 0
    /\ pc = [w \in Writers |-> "idle"]
    /\ loc = [w \in Writers |-> NoLocals]
    /\ outcome = [w \in Writers |-> NoOutcome]
    /\ NoRestore

Init ==
    /\ NoStore
    /\ is_posix = TRUE
    /\ NoEngine

Next ==
    \E w \in Writers :
        \/ SaveBegin(w)
        \/ ExistsCheck(w)
        \/ Mkdtemp(w)
        \/ WriteStep(w)
        \/ WriteFails(w)
        \/ Replace(w)
        \/ ReplaceFails(w)
        \/ Except(w)
        \/ ExceptLeavesTmp(w)
        \/ Crash(w)

Spec == Init /\ [][Next]_vars

(***************************************************************************)
(* restore_checkpoint.  Writer 1 saves a namespace; the checkpoint it      *)
(* published may then be damaged in one place; restore_checkpoint reads    *)
(* it into a target namespace, one step for the loading of the files, one  *)
(* for the outer check, one for each turn of the loop over the variables.  *)
(***************************************************************************)
\* {"x": 10, "y": {"a": [1, 2, 3]}}
NsBasic ==
    PyDict(<<kX, kY>>,
           <<PyInt(10), PyDict(<<kA>>, <<PyList(<<PyInt(1), PyInt(2), PyInt(3)>>)>>)>>)

\* {"x": 123, "y": 456}
NsNumbers == PyDict(<<kX, kY>>, <<PyInt(123), PyInt(456)>>)

\* {"t": (1, 2)}
NsTuple == PyDict(<<kT>>, <<PyTuple(<<PyInt(1), PyInt(2)>>)>>)

\* {"a": numpy.array([1, 2], dtype=uint8)}
NsArray == PyDict(<<kA>>, <<NdArray(<<1, 2>>)>>)

\* {"a": [numpy.array([1], dtype=uint8)]}
NsNestedArray == PyDict(<<kA>>, <<PyList(<<NdArray(<<1>>)>>)>>)

RestoreInputs ==
    {[namespace |-> ns, include |-> NoInclude] :
        ns \in {NsBasic, NsNumbers, NsTuple, NsArray, NsNestedArray}}

\* The target namespaces a restore starts from: {} and {"x": 0, "q": 0}.
RestoreTargets == {PyDict(<<>>, <<>>), PyDict(<<kX, kQ>>, <<PyInt(0), PyInt(0)>>)}

\* The prefix arguments: None and "r_".
RestorePrefixes == {<<>>, <<114, 95>>}

\* The bytes a damaged byte is replaced by: NUL, TAB, "1" and "z".
DamageBytes == {0, 9, 49, 122}

\* The checkpoint directory writer 1 published.
Checkpoint == CHOOSE d \in root : IsFinal(d)

CanDamage ==
    /\ pc[1] = "done"
    /\ outcome[1].kind = "returned"
    /\ rpc = "idle"
    /\ damage = NoDamage

Damaged(files, file, how, pos, var) ==
    /\ root' = {[name |-> Checkpoint.name, files |-> files]}
    /\ damage' = [file |-> file, how |-> how, pos |-> pos, var |-> var]
    /\ UNCHANGED <<root_exists, calls, pc, loc, outcome>>
    /\ UNCHANGED <<target0, prefix, target, rpc, rloc, rout, engineVars>>

\* The variable whose slice of objects.bin holds the byte at position pos.
VarAt(idx, pos) ==
    LET k == CHOOSE i \in 1..Len(idx) :
                 idx[i].offset < pos /\ pos <= idx[i].offset + idx[i].length
    IN  idx[k].name

\* One byte of objects.bin is overwritten, as in
\* test_per_object_checksum_failure.
DamageBlobByte ==
    /\ CanDamage
    /\ \E i \in 1..Len(Checkpoint.files.bin), b \in DamageBytes :
          /\ b # Checkpoint.files.bin[i]
          /\ Damaged([Checkpoint.files EXCEPT !.bin[i] = b],
                     "objects.bin", "byte", i, VarAt(Checkpoint.files.idx, i))

\* One byte of manifest.json is overwritten.
DamageManifestByte ==
    /\ CanDamage
    /\ \E i \in 1..Len(Checkpoint.files.manifest), b \in DamageBytes :
          /\ b # Checkpoint.files.manifest[i]
          /\ Damaged([Checkpoint.files EXCEPT !.manifest[i] = b],
                     "manifest.json", "byte", i, PyNone)

\* The bytes "corrupt" are appended to objects.bin.
DamageBlobAppend ==
    /\ CanDamage
    /\ Damaged([Checkpoint.files EXCEPT
                   !.bin = @ \o <<99, 111, 114, 114, 117, 112, 116>>],
               "objects.bin", "append", Len(Checkpoint.files.bin) + 1, PyNone)

\* One field of one entry of objects.idx is changed.
DamageIndex ==
    /\ CanDamage
    /\ \E k \in 1..Len(Checkpoint.files.idx) :
          LET e == Checkpoint.files.idx[k]
          IN  \/ Damaged([Checkpoint.files EXCEPT !.idx[k].sha256 = Sha256(<<0>>)],
                         "objects.idx", "sha256", k, e.name)
              \/ Damaged([Checkpoint.files EXCEPT !.idx[k].offset = @ + 1],
                         "objects.idx", "offset", k, e.name)
              \/ Damaged([Checkpoint.files EXCEPT
                             !.idx = SubSeq(@, 1, k - 1) \o SubSeq(@, k + 1, Len(@))],
                         "objects.idx", "entry", k, e.name)

\* checksum.sha256 is replaced by another digest.
DamageChecksum ==
    /\ CanDamage
    /\ Damaged([Checkpoint.files EXCEPT !.checksum = Sha256(<<0>>)],
               "checksum.sha256", "digest", 0, PyNone)

\* One of the five files is deleted.
DamageDelete ==
    /\ CanDamage
    /\ \E f \in FileNames :
          Damaged([Checkpoint.files EXCEPT !.has = @ \ {f}], f, "delete", 0, PyNone)

Result(kind, var, restored) == [kind |-> kind, var |-> var, restored |-> restored]

\* Lines 16 to 47: the call, and the loading of the five files.
RestoreBegin ==
    /\ pc[1] = "done"
    /\ outcome[1].kind = "returned"
    /\ rpc = "idle"
    /\ \E t \in RestoreTargets, p \in RestorePrefixes :
          /\ target0' = t
          /\ target' = t
          /\ prefix' = p
    /\ LET files == Checkpoint.files
           manifest == json_load(files.manifest)
       IN  IF files.has # FileNames
           THEN /\ rout' = Result("CorruptCheckpointError", PyNone, <<>>)
                /\ rpc' = "done"
                /\ UNCHANGED rloc
           ELSE IF manifest.err # ""
           THEN /\ rout' = Result(manifest.err, PyNone, <<>>)
                /\ rpc' = "done"
                /\ UNCHANGED rloc
           ELSE /\ rloc' = [manifest          |-> manifest.val,
                            objects_idx       |-> files.idx,
                            objects_blob      |-> files.bin,
                            expected_checksum |-> files.checksum,
                            i                 |-> 0,
                            restored          |-> <<>>]
                /\ rpc' = "outer"
                /\ UNCHANGED rout
    /\ UNCHANGED <<saveVars, damage, engineVars>>

\* Lines 52 to 57: the checksum of the whole checkpoint.
OuterCheck ==
    /\ rpc = "outer"
    /\ IF Sha256(json_dumps(rloc.manifest) \o rloc.objects_blob) # rloc.expected_checksum
       THEN /\ rout' = Result("ChecksumMismatchError", PyNone, <<>>)
            /\ rpc' = "done"
            /\ UNCHANGED rloc
       ELSE /\ rpc' = "loop"
            /\ rloc' = [rloc EXCEPT !.i = 1]
            /\ UNCHANGED rout
    /\ UNCHANGED <<saveVars, damage, target0, prefix, target, engineVars>>

\* objects_blob[offset : offset + length]
Slice(blob, offset, length) ==
    SubSeq(blob, offset + 1, IF offset + length < Len(blob)
                             THEN offset + length ELSE Len(blob))

\* A name that leaves the prefix out.
RestoredNameBare(p, var) == var

\* Line 96: name = f"{prefix}{var}" if prefix else var
RestoredName(p, var) == PyStr(p \o var.s)

\* Lines 64 to 98: one turn of the loop over manifest["variables"].
LoopTurn ==
    /\ rpc = "loop"
    /\ LET variables == DictGet(rloc.manifest, KeyVariables).items
           var   == variables[rloc.i]
           found == {k \in 1..Len(rloc.objects_idx) : rloc.objects_idx[k].name = var}
           entry == rloc.objects_idx[CHOOSE k \in found : TRUE]
           data  == Slice(rloc.objects_blob, entry.offset, entry.length)
           value == IF entry.type = "numpy" THEN np_load(data) ELSE unpackb(data)
           name  == RestoredName(prefix, var)
           stop(kind, named) ==
               /\ rout' = Result(kind, named, rloc.restored)
               /\ rpc' = "done"
               /\ UNCHANGED <<rloc, target>>
       IN  IF rloc.i > Len(variables)
           THEN /\ rout' = Result("returned", PyNone, rloc.restored)
                /\ rpc' = "done"
                /\ UNCHANGED <<rloc, target>>
           ELSE IF found = {} THEN stop("CorruptCheckpointError", var)
           ELSE IF Sha256(data) # entry.sha256 THEN stop("ChecksumMismatchError", var)
           ELSE IF value.err # "" THEN stop(value.err, var)
           ELSE /\ target' = DictSet(target, name, value.val)
                /\ rloc' = [rloc EXCEPT !.i = @ + 1, !.restored = Append(@, name)]
                /\ UNCHANGED <<rout, rpc>>
    /\ UNCHANGED <<saveVars, damage, target0, prefix, engineVars>>

RestoreNext ==
    \/ calls = 0 /\ SaveBeginFrom(1, RestoreInputs)
    \/ ExistsCheck(1)
    \/ Mkdtemp(1)
    \/ WriteStep(1)
    \/ Replace(1)
    \/ DamageBlobByte
    \/ DamageManifestByte
    \/ DamageBlobAppend
    \/ DamageIndex
    \/ DamageChecksum
    \/ DamageDelete
    \/ RestoreBegin
    \/ OuterCheck
    \/ LoopTurn

SpecRestore == Init /\ [][RestoreNext]_vars

(***************************************************************************)
(* ExecEngine and _child_entry.  The supervisor and each child are         *)
(* separate processes: run is three steps (spawn, write the pid, write the *)
(* audit record) between which the child may run; pause, resume, kill and  *)
(* status are one step each, taken between the supervisor's calls of run.  *)
(* A signal acts on the child at once.  Under SpecExec the execution is    *)
(* run again only after its child has ended; SpecRolling and SpecStamps    *)
(* lift that.  Of a child that has ended only the way it ended is kept.    *)
(***************************************************************************)
\* checkpoint_interval_s of the runs that set a cadence.
CadenceS == 1

Record(event, pid, m) == [event |-> event, pid |-> pid, meta |-> m]

\* A write that replaces the log by the new record.
write_truncating(log, rec) == <<rec>>

\* with open(audit_path, "a") as f: f.write(json.dumps(rec) + "\n")
write_append(log, rec) == Append(log, rec)

\* psutil.pid_exists(pid), for the pid read from the pid file (0: None).
pid_exists(pid) ==
    /\ pid \in Pids
    /\ procs[pid].state \in {"running", "stopped", "zombie"}

\* What a process that terminates becomes: a zombie until its parent reaps
\* it on POSIX, nothing elsewhere.
Exited == IF is_posix THEN "zombie" ELSE "gone"

\* A signal that is never delivered.
os_kill_lost(state, sig) == state

\* os.kill(pid, sig) / psutil.Process(pid).kill(): the state of the process
\* after the signal.
os_kill(state, sig) ==
    CASE sig = "SIGKILL" /\ state \in {"running", "stopped"} -> Exited
      [] sig = "SIGSTOP" /\ state = "running" -> "stopped"
      [] sig = "SIGCONT" /\ state = "stopped" -> "running"
      [] OTHER -> state

\* The process record of a child that ended in the given way: "done" after
\* EXIT, "failed" after an exception of func, "killed" by a signal.
Ended(how) == [NoProc EXCEPT !.state = Exited, !.cpc = how]

\* The process record after a signal has been sent to the process.
Signalled(proc, sig) ==
    IF proc.state \in {"running", "stopped"}
       /\ os_kill(proc.state, sig) \notin {"running", "stopped"}
    THEN Ended("killed")
    ELSE [proc EXCEPT !.state = os_kill(proc.state, sig)]

\* The tag a platform without stop signals writes instead of PAUSE, RESUME.
Unskipped(event) == event

Skipped(event) ==
    CASE event = "PAUSE" -> "PAUSE_SKIPPED"
      [] event = "RESUME" -> "RESUME_SKIPPED"

\* ExecEngine._write_audit
_write_audit(event, m) == audit' = write_append(audit, Record(event, pid_file, m))

\* _child_entry.audit, in the child whose pid is c
child_audit(c, event, m) == audit' = write_append(audit, Record(event, c, m))

Call(op, raised, state, pid) == [op |-> op, raised |-> raised, state |-> state, pid |-> pid]

\* A state of status() that takes every existing pid for a running child.
status_state_unstopped == IF pid_exists(pid_file) THEN "RUNNING" ELSE "STOPPED"

\* ExecEngine.status: the state tag it computes.
status_state ==
    IF pid_exists(pid_file)
    THEN IF procs[pid_file].state = "stopped" THEN "PAUSED" ELSE "RUNNING"
    ELSE "STOPPED"

\* run, lines 196 to 214: the directory, meta.json, the child started.
\* Process.start() first reaps the children of this process that have exited.
Spawn ==
    /\ spc = "idle"
    /\ runs + 1 \in Pids
    /\ \E interval \in {0, CadenceS} :
          LET reaped == [p \in Pids |->
                            IF procs[p].state = "zombie"
                            THEN [procs[p] EXCEPT !.state = "gone"]
                            ELSE procs[p]]
          IN  /\ procs' = [reaped EXCEPT ![runs + 1] =
                              [state |-> "running", cpc |-> "boot",
                               context |-> EmptyContext, elapsed |-> 0,
                               interval |-> interval]]
              /\ meta' = [exists |-> TRUE, state |-> "RUNNING",
                          checkpoint_interval_s |-> interval]
    /\ exec_dir' = TRUE
    /\ runs' = runs + 1
    /\ spc' = "write_pid"
    /\ UNCHANGED <<is_posix, pid_file, audit, ckpt_file, ops, last>>
    /\ UNCHANGED <<saveVars, restoreVars, rollVars, stampVars>>

\* run, called when no child of the execution is alive.
RunSpawn ==
    /\ \A p \in Pids : procs[p].state \notin {"running", "stopped"}
    /\ Spawn

\* run, line 216
RunWritePid ==
    /\ spc = "write_pid"
    /\ pid_file' = runs
    /\ spc' = "write_audit"
    /\ UNCHANGED <<is_posix, exec_dir, meta, procs, audit, ckpt_file, runs, ops, last>>
    /\ UNCHANGED <<saveVars, restoreVars, rollVars, stampVars>>

\* run, lines 217 to 219
RunAudit ==
    /\ spc = "write_audit"
    /\ _write_audit("START", "")
    /\ spc' = "idle"
    /\ last' = Call("run", "", "", 0)
    /\ UNCHANGED <<is_posix, exec_dir, meta, pid_file, procs, ckpt_file, runs, ops>>
    /\ UNCHANGED <<saveVars, restoreVars, rollVars, stampVars>>

\* Whether the supervisor can make a call on the execution: run has returned.
CanCall == spc = "idle" /\ exec_dir /\ ops < MaxOps

\* ExecEngine.pause
Pause ==
    /\ CanCall
    /\ IF ~is_posix
       THEN /\ _write_audit(Skipped("PAUSE"), "os_not_supported")
            /\ UNCHANGED procs
       ELSE IF pid_exists(pid_file)
       THEN /\ procs' = [procs EXCEPT ![pid_file] = Signalled(@, "SIGSTOP")]
            /\ _write_audit("PAUSE", "")
       ELSE UNCHANGED <<procs, audit>>
    /\ ops' = ops + 1
    /\ last' = Call("pause", "", "", 0)
    /\ UNCHANGED <<is_posix, exec_dir, meta, pid_file, ckpt_file, spc, runs>>
    /\ UNCHANGED <<saveVars, restoreVars, rollVars, stampVars>>

\* ExecEngine.resume
Resume ==
    /\ CanCall
    /\ IF ~is_posix
       THEN /\ _write_audit(Skipped("RESUME"), "os_not_supported")
            /\ last' = Call("resume", "", "", 0)
            /\ UNCHANGED procs
       ELSE IF pid_exists(pid_file)
       THEN /\ procs' = [procs EXCEPT ![pid_file] = Signalled(@, "SIGCONT")]
            /\ _write_audit("RESUME", "")
            /\ last' = Call("resume", "", "", 0)
       ELSE /\ last' = Call("resume", "RuntimeError", "", 0)
            /\ UNCHANGED <<procs, audit>>
    /\ ops' = ops + 1
    /\ UNCHANGED <<is_posix, exec_dir, meta, pid_file, ckpt_file, spc, runs>>
    /\ UNCHANGED <<saveVars, restoreVars, rollVars, stampVars>>

\* A kill that writes its record only when it found the pid.
KillOnlyLive ==
    /\ CanCall
    /\ IF pid_exists(pid_file)
       THEN /\ procs' = [procs EXCEPT ![pid_file] = Signalled(@, "SIGKILL")]
            /\ _write_audit("KILL", "")
       ELSE UNCHANGED <<procs, audit>>
    /\ ops' = ops + 1
    /\ last' = Call("kill", "", "", 0)
    /\ UNCHANGED <<is_posix, exec_dir, meta, pid_file, ckpt_file, spc, runs>>
    /\ UNCHANGED <<saveVars, restoreVars, rollVars, stampVars>>

\* ExecEngine.kill
Kill ==
    /\ CanCall
    /\ IF pid_exists(pid_file)
       THEN procs' = [procs EXCEPT ![pid_file] = Signalled(@, "SIGKILL")]
       ELSE UNCHANGED procs
    /\ _write_audit("KILL", "")
    /\ ops' = ops + 1
    /\ last' = Call("kill", "", "", 0)
    /\ UNCHANGED <<is_posix, exec_dir, meta, pid_file, ckpt_file, spc, runs>>
    /\ UNCHANGED <<saveVars, restoreVars, rollVars, stampVars>>

\* ExecEngine.status
Status ==
    /\ CanCall
    /\ last' = Call("status", "", status_state, pid_file)
    /\ ops' = ops + 1
    /\ UNCHANGED <<is_posix, exec_dir, meta, pid_file, procs, audit, ckpt_file,
                   spc, runs>>
    /\ UNCHANGED <<saveVars, restoreVars, rollVars, stampVars>>

\* Whether child c is scheduled: it exists and is neither stopped nor dead.
Runs(c) == procs[c].state = "running"

\* A child that a checkpoint file it cannot load brings down.
ChildLoadFatal(c) ==
    /\ Runs(c)
    /\ procs[c].cpc = "boot"
    /\ IF ckpt_file.exists
       THEN IF pickle_load(ckpt_file.pickle).raised
            THEN /\ procs' = [procs EXCEPT ![c] = Ended("failed")]
                 /\ child_audit(c, "ERROR", "error")
            ELSE /\ procs' = [procs EXCEPT
                                 ![c].context = pickle_load(ckpt_file.pickle).context,
                                 ![c].cpc = "start"]
                 /\ child_audit(c, "CHECKPOINT_LOADED", "")
       ELSE /\ procs' = [procs EXCEPT ![c].cpc = "start"]
            /\ UNCHANGED audit
    /\ UNCHANGED <<is_posix, exec_dir, meta, pid_file, ckpt_file, spc, runs, ops, last>>
    /\ UNCHANGED <<saveVars, restoreVars, rollVars, stampVars>>

\* _child_entry, lines 71 to 99: the checkpoint file, if there is one, is
\* loaded into the context; a file that cannot be loaded is reported and
\* the context stays empty.
ChildLoad(c) ==
    /\ Runs(c)
    /\ procs[c].cpc = "boot"
    /\ IF ckpt_file.exists
       THEN IF pickle_load(ckpt_file.pickle).raised
            THEN /\ procs' = [procs EXCEPT ![c].cpc = "start"]
                 /\ child_audit(c, "ERROR", "error")
            ELSE /\ procs' = [procs EXCEPT
                                 ![c].context = pickle_load(ckpt_file.pickle).context,
                                 ![c].cpc = "start"]
                 /\ child_audit(c, "CHECKPOINT_LOADED", "")
       ELSE /\ procs' = [procs EXCEPT ![c].cpc = "start"]
            /\ UNCHANGED audit
    /\ UNCHANGED <<is_posix, exec_dir, meta, pid_file, ckpt_file, spc, runs, ops, last>>
    /\ UNCHANGED <<saveVars, restoreVars, rollVars, stampVars>>

\* _child_entry, line 114
ChildStart(c) ==
    /\ Runs(c)
    /\ procs[c].cpc = "start"
    /\ child_audit(c, "START", "")
    /\ procs' = [procs EXCEPT ![c].cpc = "user"]
    /\ UNCHANGED <<is_posix, exec_dir, meta, pid_file, ckpt_file, spc, runs, ops, last>>
    /\ UNCHANGED <<saveVars, restoreVars, rollVars, stampVars>>

\* Line 115, inside func: one step of counter_task.
ChildWork(c) ==
    /\ Runs(c)
    /\ procs[c].cpc = "user"
    /\ procs[c].context.i < Limit
    /\ procs' = [procs EXCEPT ![c].context.i = @ + 1]
    /\ UNCHANGED <<is_posix, exec_dir, meta, pid_file, audit, ckpt_file, spc, runs, ops, last>>
    /\ UNCHANGED <<saveVars, restoreVars, rollVars, stampVars>>

\* A second of wall time passes while the child is inside func.
ChildTick(c) ==
    /\ procs[c].state \in {"running", "stopped"}
    /\ procs[c].cpc = "user"
    /\ procs[c].elapsed < procs[c].interval
    /\ procs' = [procs EXCEPT ![c].elapsed = @ + 1]
    /\ UNCHANGED <<is_posix, exec_dir, meta, pid_file, audit, ckpt_file, spc, runs, ops, last>>
    /\ UNCHANGED <<saveVars, restoreVars, rollVars, stampVars>>

\* Whether maybe_checkpoint finds a checkpoint due.
Due(proc) == proc.interval # 0 /\ proc.elapsed >= proc.interval

\* Lines 115 and 116: func returns and maybe_checkpoint runs, the
\* checkpoint, when one is due, being written.
ChildReturn(c) ==
    /\ Runs(c)
    /\ procs[c].cpc = "user"
    /\ procs[c].context.i = Limit
    /\ IF Due(procs[c])
       THEN /\ ckpt_file' = [exists |-> TRUE,
                             pickle |-> pickle_dumps(procs[c].context)]
            /\ child_audit(c, "CHECKPOINT", "")
            /\ procs' = [procs EXCEPT ![c].cpc = "exit", ![c].elapsed = 0]
       ELSE /\ procs' = [procs EXCEPT ![c].cpc = "exit"]
            /\ UNCHANGED <<ckpt_file, audit>>
    /\ UNCHANGED <<is_posix, exec_dir, meta, pid_file, spc, runs, ops, last>>
    /\ UNCHANGED <<saveVars, restoreVars, rollVars, stampVars>>

\* Lines 115 and 116, with checkpoint_state returning an error.
ChildCheckpointFails(c) ==
    /\ Runs(c)
    /\ procs[c].cpc = "user"
    /\ procs[c].context.i = Limit
    /\ Due(procs[c])
    /\ child_audit(c, "ERROR", "error")
    /\ procs' = [procs EXCEPT ![c].cpc = "exit", ![c].elapsed = 0]
    /\ UNCHANGED <<is_posix, exec_dir, meta, pid_file, ckpt_file, spc, runs, ops, last>>
    /\ UNCHANGED <<saveVars, restoreVars, rollVars, stampVars>>

\* Lines 118 to 120: func raises; the child exits non-zero.
ChildRaises(c) ==
    /\ Runs(c)
    /\ procs[c].cpc = "user"
    /\ child_audit(c, "ERROR", "traceback")
    /\ procs' = [procs EXCEPT ![c] = Ended("failed")]
    /\ UNCHANGED <<is_posix, exec_dir, meta, pid_file, ckpt_file, spc, runs, ops, last>>
    /\ UNCHANGED <<saveVars, restoreVars, rollVars, stampVars>>

\* Line 115 ending in an exception that is not an Exception (SystemExit from
\* sys.exit, KeyboardInterrupt): the clause of line 118 does not apply, the
\* finally clause runs and the child exits non-zero.
ChildInterrupted(c) ==
    /\ Runs(c)
    /\ procs[c].cpc = "user"
    /\ procs' = [procs EXCEPT ![c] = Ended("failed")]
    /\ UNCHANGED <<is_posix, exec_dir, meta, pid_file, audit, ckpt_file, spc, runs, ops, last>>
    /\ UNCHANGED <<saveVars, restoreVars, rollVars, stampVars>>

\* Line 117 and the end of the child.
ChildExit(c) ==
    /\ Runs(c)
    /\ procs[c].cpc = "exit"
    /\ child_audit(c, "EXIT", "")
    /\ procs' = [procs EXCEPT ![c] = Ended("done")]
    /\ UNCHANGED <<is_posix, exec_dir, meta, pid_file, ckpt_file, spc, runs, ops, last>>
    /\ UNCHANGED <<saveVars, restoreVars, rollVars, stampVars>>

\* The exited child is waited for (by multiprocessing when the supervisor
\* process ends, or by init) and its pid ceases to exist.
Reap(c) ==
    /\ procs[c].state = "zombie"
    /\ procs' = [procs EXCEPT ![c].state = "gone"]
    /\ UNCHANGED <<is_posix, exec_dir, meta, pid_file, audit, ckpt_file, spc, runs, ops, last>>
    /\ UNCHANGED <<saveVars, restoreVars, rollVars, stampVars>>

InitExec ==
    /\ NoStore
    /\ is_posix \in BOOLEAN
    /\ NoEngine

ExecNext ==
    \/ RunSpawn
    \/ RunWritePid
    \/ RunAudit
    \/ Pause
    \/ Resume
    \/ Kill
    \/ Status
    \/ \E c \in Pids :
          \/ ChildLoad(c)
          \/ ChildStart(c)
          \/ ChildWork(c)
          \/ ChildTick(c)
          \/ ChildReturn(c)
          \/ ChildCheckpointFails(c)
          \/ ChildRaises(c)
          \/ ChildInterrupted(c)
          \/ ChildExit(c)
          \/ Reap(c)

SpecExec == InitExec /\ [][ExecNext]_vars

(***************************************************************************)
(* The rolling checkpoint, step by step.  run is called whether or not an  *)
(* earlier child of the execution is alive, so two children of one         *)
(* execution may be inside _atomic_write at once; they share the temporary *)
(* name checkpoint.pkl.tmp.  A file that is opened, written and renamed    *)
(* stays one file: a child that opened the temporary name writes into the  *)
(* file it opened wherever that file is linked when it writes.             *)
(***************************************************************************)
\* f.write(data) at position 0 of a file holding old.
Overwrite(old, data) ==
    IF Len(old) <= Len(data)
    THEN data
    ELSE data \o SubSeq(old, Len(data) + 1, Len(old))

\* The part of the data that reached the file when the write failed.
Partial(data) == SubSeq(data, 1, Len(data) \div 2)

\* Lines 115, 116 and 101 to 106: func returns and maybe_checkpoint runs;
\* when a checkpoint is due, checkpoint_state is entered.
MaybeCheckpoint(c) ==
    /\ Runs(c)
    /\ procs[c].cpc = "user"
    /\ procs[c].context.i = Limit
    /\ IF Due(procs[c])
       THEN /\ procs' = [procs EXCEPT ![c].cpc = "open"]
            /\ touched' = [touched EXCEPT ![c] = FALSE]
       ELSE /\ procs' = [procs EXCEPT ![c].cpc = "exit"]
            /\ UNCHANGED touched
    /\ UNCHANGED <<is_posix, exec_dir, meta, pid_file, audit, ckpt_file, spc,
                   runs, ops, last, tmp_file, fd>>
    /\ UNCHANGED <<saveVars, restoreVars, stampVars>>

\* _atomic_write, lines 42 and 43: open(tmp, "wb") creates the file or
\* empties the one that is there.
AtomicOpen(c) ==
    /\ Runs(c)
    /\ procs[c].cpc = "open"
    /\ tmp_file' = [exists |-> TRUE, pickle |-> <<>>]
    /\ fd' = [fd EXCEPT ![c] = "tmp"]
    /\ procs' = [procs EXCEPT ![c].cpc = "write"]
    /\ UNCHANGED <<is_posix, exec_dir, meta, pid_file, audit, ckpt_file, spc,
                   runs, ops, last, touched>>
    /\ UNCHANGED <<saveVars, restoreVars, stampVars>>

\* The files after child c has written data into the file it has open.
Written(c, data) ==
    /\ tmp_file' = IF fd[c] = "tmp"
                   THEN [tmp_file EXCEPT !.pickle = Overwrite(@, data)]
                   ELSE tmp_file
    /\ ckpt_file' = IF fd[c] = "path"
                    THEN [ckpt_file EXCEPT !.pickle = Overwrite(@, data)]
                    ELSE ckpt_file
    /\ fd' = [fd EXCEPT ![c] = NoFd]
    /\ touched' = [touched EXCEPT ![c] = @ \/ fd[c] = "path"]

\* _atomic_write, lines 44 to 46: the pickle is written and the file closed.
AtomicWrite(c) ==
    /\ Runs(c)
    /\ procs[c].cpc = "write"
    /\ Written(c, pickle_dumps(procs[c].context))
    /\ procs' = [procs EXCEPT ![c].cpc = "replace"]
    /\ UNCHANGED <<is_posix, exec_dir, meta, pid_file, audit, spc, runs, ops,
                   last>>
    /\ UNCHANGED <<saveVars, restoreVars, stampVars>>

\* Lines 44 to 46 failing (the disk is full): part of the pickle is written
\* and OSError reaches checkpoint_state, line 55.
AtomicWriteFails(c) ==
    /\ Runs(c)
    /\ procs[c].cpc = "write"
    /\ Written(c, Partial(pickle_dumps(procs[c].context)))
    /\ procs' = [procs EXCEPT ![c].cpc = "failed_attempt"]
    /\ UNCHANGED <<is_posix, exec_dir, meta, pid_file, audit, spc, runs, ops,
                   last>>
    /\ UNCHANGED <<saveVars, restoreVars, stampVars>>

\* What the open files are linked as once the temporary name has been
\* renamed to checkpoint.pkl.
Renamed(f) ==
    CASE f = "tmp" -> "path"
      [] f = "path" -> "orphan"
      [] OTHER -> f

\* _atomic_write, line 47: os.replace(tmp, path), which raises
\* FileNotFoundError when the temporary name is not there.
AtomicReplace(c) ==
    /\ Runs(c)
    /\ procs[c].cpc = "replace"
    /\ IF tmp_file.exists
       THEN /\ ckpt_file' = tmp_file
            /\ tmp_file' = NoCheckpointFile
            /\ fd' = [p \in Pids |-> Renamed(fd[p])]
            /\ touched' = [touched EXCEPT ![c] = TRUE]
            /\ procs' = [procs EXCEPT ![c].cpc = "attempt"]
       ELSE /\ procs' = [procs EXCEPT ![c].cpc = "failed_attempt"]
            /\ UNCHANGED <<ckpt_file, tmp_file, fd, touched>>
    /\ UNCHANGED <<is_posix, exec_dir, meta, pid_file, audit, spc, runs, ops,
                   last>>
    /\ UNCHANGED <<saveVars, restoreVars, stampVars>>

\* maybe_checkpoint, lines 107 to 111: the record of the attempt.
CheckpointAudit(c) ==
    /\ Runs(c)
    /\ procs[c].cpc \in {"attempt", "failed_attempt"}
    /\ IF procs[c].cpc = "attempt"
       THEN child_audit(c, "CHECKPOINT", "")
       ELSE child_audit(c, "ERROR", "error")
    /\ procs' = [procs EXCEPT ![c].cpc = "exit", ![c].elapsed = 0]
    /\ UNCHANGED <<is_posix, exec_dir, meta, pid_file, ckpt_file, spc, runs,
                   ops, last>>
    /\ UNCHANGED <<saveVars, restoreVars, rollVars, stampVars>>

\* The disk loses the end of checkpoint.pkl.
CheckpointDamaged ==
    /\ ckpt_file.exists
    /\ ~pickle_load(ckpt_file.pickle).raised
    /\ ckpt_file' = [ckpt_file EXCEPT !.pickle = Partial(@)]
    /\ UNCHANGED <<is_posix, exec_dir, meta, pid_file, procs, audit, spc, runs,
                   ops, last>>
    /\ UNCHANGED <<saveVars, restoreVars, rollVars, stampVars>>

RollingNext ==
    \/ Spawn
    \/ RunWritePid
    \/ RunAudit
    \/ Kill
    \/ \E c \in Pids :
          \/ ChildLoad(c)
          \/ ChildStart(c)
          \/ ChildWork(c)
          \/ ChildTick(c)
          \/ MaybeCheckpoint(c)
          \/ AtomicOpen(c)
          \/ AtomicWrite(c)
          \/ AtomicWriteFails(c)
          \/ AtomicReplace(c)
          \/ CheckpointAudit(c)
          \/ ChildExit(c)

SpecRolling == Init /\ [][RollingNext]_vars

\* The same, on a disk that may damage checkpoint.pkl.
RehydrateNext ==
    \/ RollingNext
    \/ CheckpointDamaged

SpecRehydrate == Init /\ [][RehydrateNext]_vars

(***************************************************************************)
(* The audit writes, step by step.  A writer builds its record, reading    *)
(* the clock for "ts", and then opens audit.log and appends the record;    *)
(* the supervisor and the children are separate processes and take these   *)
(* steps in any order.  The runs set no cadence that comes due, so the     *)
(* records are those of run and the START and EXIT of each child.          *)
(***************************************************************************)
\* The largest reading of the clock.
MaxClock == 2

\* _ts(): datetime.utcnow(), as a number of clock ticks.
_ts == clock

\* The record a writer builds before it opens the log.
Built(event, pid, m) == [event |-> event, pid |-> pid, meta |-> m, ts |-> _ts]

\* The log files after writer w has appended the record it built.
Appended(w) ==
    /\ audit' = write_append(audit, Record(pending[w].event, pending[w].pid,
                                           pending[w].meta))
    /\ stamps' = Append(stamps, pending[w].ts)
    /\ pending' = [pending EXCEPT ![w] = NoRec]

\* Time passes.
ClockTick ==
    /\ clock < MaxClock
    /\ clock' = clock + 1
    /\ UNCHANGED <<is_posix, exec_dir, meta, pid_file, procs, audit, ckpt_file,
                   spc, runs, ops, last, pending, stamps>>
    /\ UNCHANGED <<saveVars, restoreVars, rollVars>>

\* run, line 217: _write_audit, lines 154 to 159.
WriteAuditRec ==
    /\ spc = "write_audit"
    /\ pending' = [pending EXCEPT ![0] = Built("START", pid_file, "")]
    /\ spc' = "append"
    /\ UNCHANGED <<is_posix, exec_dir, meta, pid_file, procs, audit, ckpt_file,
                   runs, ops, last, clock, stamps>>
    /\ UNCHANGED <<saveVars, restoreVars, rollVars>>

\* _write_audit, lines 160 to 162, and the return of run.
WriteAuditAppend ==
    /\ spc = "append"
    /\ Appended(0)
    /\ spc' = "idle"
    /\ last' = Call("run", "", "", 0)
    /\ UNCHANGED <<is_posix, exec_dir, meta, pid_file, procs, ckpt_file, runs,
                   ops, clock>>
    /\ UNCHANGED <<saveVars, restoreVars, rollVars>>

\* audit, lines 80 to 85, called at line 114 or at line 117.
AuditRec(c) ==
    /\ Runs(c)
    /\ procs[c].cpc \in {"start", "exit"}
    /\ pending[c] = NoRec
    /\ pending' = [pending EXCEPT ![c] =
                      Built(IF procs[c].cpc = "start" THEN "START" ELSE "EXIT", c, "")]
    /\ UNCHANGED <<is_posix, exec_dir, meta, pid_file, procs, audit, ckpt_file,
                   spc, runs, ops, last, clock, stamps>>
    /\ UNCHANGED <<saveVars, restoreVars, rollVars>>

\* audit, lines 86 to 88; after START func is called, after EXIT the child
\* ends.
AuditAppend(c) ==
    /\ Runs(c)
    /\ pending[c] # NoRec
    /\ Appended(c)
    /\ procs' = [procs EXCEPT ![c] = IF @.cpc = "start"
                                     THEN [@ EXCEPT !.cpc = "user"]
                                     ELSE Ended("done")]
    /\ UNCHANGED <<is_posix, exec_dir, meta, pid_file, ckpt_file, spc, runs,
                   ops, last, clock>>
    /\ UNCHANGED <<saveVars, restoreVars, rollVars>>

StampsNext ==
    \/ Spawn
    \/ RunWritePid
    \/ WriteAuditRec
    \/ WriteAuditAppend
    \/ ClockTick
    \/ \E c \in Pids :
          \/ ChildLoad(c)
          \/ AuditRec(c)
          \/ AuditAppend(c)
          \/ ChildWork(c)
          \/ ChildReturn(c)

SpecStamps == Init /\ [][StampsNext]_vars

(***************************************************************************)
(* Properties of save_checkpoint, checked under Spec.                      *)
(***************************************************************************)
\* A checkpoint directory that holds all five files, consistent with one
\* another and with the directory's name (the invariants of the data model).
Populated(d) ==
    /\ d.files.has = FileNames
    /\ d.files.metadata # NoMetadata
    /\ d.files.checksum = d.name.id
    /\ Sha256(d.files.manifest \o d.files.bin) = d.name.id
    /\ LET m == json_load(d.files.manifest)
       IN  /\ m.err = ""
           /\ DictGet(m.val, KeyVariables).items
                 = [i \in 1..Len(d.files.idx) |-> d.files.idx[i].name]
    /\ \A i \in 1..Len(d.files.idx) :
          LET e == d.files.idx[i]
          IN  /\ e.offset + e.length <= Len(d.files.bin)
              /\ Sha256(SubSeq(d.files.bin, e.offset + 1, e.offset + e.length)) = e.sha256
    /\ \A i \in 1..Len(d.files.idx) :
          d.files.idx[i].offset
             = (IF i = 1 THEN 0 ELSE d.files.idx[i - 1].offset + d.files.idx[i - 1].length)

\* C2: at every moment of every save_checkpoint call, whatever the other
\* writer does and wherever a writer fails or dies, each content-addressed
\* directory of the root holds all five files with their final contents.
C2_AtomicVisibility == \A d \in root : IsFinal(d) => Populated(d)

\* C2's case: a published checkpoint stands beside a staging directory that
\* a dead writer left half filled.
C2_Witness ==
    \E d \in root, s \in root, w \in Writers :
        /\ IsFinal(d)
        /\ ~IsFinal(s)
        /\ s.name.tmp # 0
        /\ pc[w] = "crashed"
        /\ s.files.has # {}
        /\ s.files.has # FileNames

\* The content-addressed directories of a root.
Published(r) == {d \in r : IsFinal(d)}

\* C3 as claimed: a call whose rename step failed returns by raising
\* AtomicWriteError, and the root then holds neither the content-addressed
\* directory of that checkpoint nor the call's staging directory.
C3_RenameFailureLeavesNoCheckpoint ==
    [][\A w \in Writers :
          (pc[w] = "except" /\ loc[w].rename_failed /\ pc'[w] = "done")
          => /\ outcome'[w].kind = "AtomicWriteError"
             /\ ~\E d \in root' : d.name = FinalDir(loc[w].prep.checkpoint_id)
             /\ ~\E d \in root' : d.name = loc[w].tmp_dir]_vars

\* C3 as amended: the failed rename changes nothing in the root; the call
\* then returns by raising AtomicWriteError, having neither added nor
\* removed nor changed a content-addressed directory, and its staging
\* directory is gone unless the best-effort removal itself failed.
C3_RenameFailurePublishesNothing ==
    [][\A w \in Writers :
          /\ (pc[w] = "replace" /\ pc'[w] = "except") => root' = root
          /\ (pc[w] = "except" /\ loc[w].rename_failed /\ pc'[w] = "done")
             => /\ outcome'[w].kind = "AtomicWriteError"
                /\ Published(root') = Published(root)
                /\ \/ ~\E d \in root' : d.name = loc[w].tmp_dir
                   \/ loc'[w].rmtree_failed /\ root' = root]_vars

\* C3's case: a forced rename failure, the error raised, the staging
\* directory removed, while the other writer's checkpoint stays published.
C3_Witness ==
    \E w \in Writers :
        /\ pc[w] = "done"
        /\ loc[w].rename_failed
        /\ loc[w].fault
        /\ ~loc[w].rmtree_failed
        /\ outcome[w].kind = "AtomicWriteError"
        /\ ~\E d \in root : d.name = loc[w].tmp_dir
        /\ ~\E d \in root : d.name = FinalDir(loc[w].prep.checkpoint_id)
        /\ Published(root) # {}

\* Whether writer w is in, or has finished, a call that reached step 6.
Addressed(w) == pc[w] \notin {"idle", "crashed"} /\ loc[w].prep.err = ""

\* C4 as claimed: two calls whose selected variables are equal as Python
\* values (dict equality does not look at insertion order) compute the same
\* content address, whoever calls and under whatever execution id.
C4_Determinism ==
    \A v \in Writers, w \in Writers :
        (/\ Addressed(v)
         /\ Addressed(w)
         /\ PyEq(SelectItems(loc[v].namespace, loc[v].include),
                 SelectItems(loc[w].namespace, loc[w].include)))
        => loc[v].prep.checkpoint_id = loc[w].prep.checkpoint_id

\* C5: no step removes or changes a content-addressed directory, and a call
\* that finds the directory of its content address in place returns that
\* address at once and leaves the root exactly as it was: no second
\* directory, no staging directory, the first save's metadata untouched.
C5_IdempotentSave ==
    [][/\ \A d \in root : IsFinal(d) => d \in root'
       /\ \A w \in Writers :
             (/\ pc[w] = "exists"
              /\ pc'[w] # "exists"
              /\ \E d \in root : d.name = FinalDir(loc[w].prep.checkpoint_id))
             => /\ pc'[w] = "done"
                /\ outcome'[w] = Returned(loc[w].prep.checkpoint_id)
                /\ root' = root]_vars

\* C5's case: a call has returned the address of a directory that the other
\* writer, under the other execution id, had published; it staged nothing.
C5_Witness ==
    \E w \in Writers, d \in root :
        /\ pc[w] = "done"
        /\ outcome[w].kind = "returned"
        /\ loc[w].tmp_dir = NoLocals.tmp_dir
        /\ d.name = FinalDir(outcome[w].value)
        /\ d.files.metadata.execution_id # ExecutionId(w)

\* C6 as claimed: when both writers have finished calls for the same content
\* address, with no I/O fault in either, both have returned that address and
\* the root holds its directory.
C6_ConcurrentSaves ==
    \A v \in Writers, w \in Writers :
        (/\ v # w
         /\ pc[v] = "done" /\ pc[w] = "done"
         /\ loc[v].prep.err = "" /\ loc[w].prep.err = ""
         /\ ~loc[v].fault /\ ~loc[w].fault
         /\ loc[v].prep.checkpoint_id = loc[w].prep.checkpoint_id)
        => /\ outcome[v] = Returned(loc[v].prep.checkpoint_id)
           /\ outcome[w] = Returned(loc[w].prep.checkpoint_id)
           /\ \E d \in root : d.name = FinalDir(loc[w].prep.checkpoint_id)

\* The selected names whose values the classifier rejects.
FailingSelected(locals) ==
    LET items == SelectItems(locals.namespace, locals.include)
    IN  {items.keys[i] : i \in {j \in 1..Len(items.keys) : ~_is_safe(items.items[j])}}

\* C10: a call that selects at least one value the classifier rejects ends,
\* in the step that starts it, with UnserializableError; the details name
\* each rejected selected variable once and no other; the root is unchanged.
C10_UnserializableBeforeWriting ==
    [][\A w \in Writers :
          (loc'[w] # loc[w] /\ FailingSelected(loc'[w]) # {})
          => /\ pc'[w] = "done"
             /\ outcome'[w].kind = "UnserializableError"
             /\ {outcome'[w].details[i].name : i \in 1..Len(outcome'[w].details)}
                   = FailingSelected(loc'[w])
             /\ Len(outcome'[w].details) = Cardinality(FailingSelected(loc'[w]))
             /\ root' = root]_vars

\* C10's case: an include list selected one of the two rejected values of
\* the namespace, and the call failed naming that one alone.
C10_Witness ==
    \E w \in Writers :
        /\ pc[w] = "done"
        /\ outcome[w].kind = "UnserializableError"
        /\ loc[w].include.given
        /\ Len(outcome[w].details) = 1
        /\ outcome[w].details[1].name = kF
        /\ Cardinality(FailingSelected([loc[w] EXCEPT !.include = NoInclude])) = 2

(***************************************************************************)
(* Properties of restore_checkpoint, checked under SpecRestore.            *)
(***************************************************************************)
\* Whether every value of a namespace is admitted by the classifier.
AllSafe(namespace) == \A i \in 1..Len(namespace.items) : _is_safe(namespace.items[i])

\* C1 as claimed: a save of a namespace whose values the classifier admits
\* returns an address, and restoring the undamaged checkpoint into an empty
\* namespace, without prefix, returns with the target equal to the saved
\* namespace: same keys, values equal and of the same kind.
C1_RoundTrip ==
    /\ (pc[1] = "done" /\ AllSafe(loc[1].namespace)) => outcome[1].kind = "returned"
    /\ (/\ rpc = "done"
        /\ damage = NoDamage
        /\ target0 = PyDict(<<>>, <<>>)
        /\ prefix = <<>>)
       => /\ rout.kind = "returned"
          /\ PyEq(target, loc[1].namespace)

\* C7 as claimed: whenever restore_checkpoint ends with
\* ChecksumMismatchError, from the outer check or from the check of one
\* object, the target namespace is what it was before the call.
C7_MismatchLeavesTargetUntouched ==
    (rpc = "done" /\ rout.kind = "ChecksumMismatchError") => target = target0

\* C8 as claimed: after one byte of objects.bin or one byte of manifest.json
\* has been changed, restore_checkpoint ends with ChecksumMismatchError and
\* has inserted nothing into the target namespace.
C8_SingleByteDetected ==
    (rpc = "done" /\ damage.how = "byte")
    => /\ rout.kind = "ChecksumMismatchError"
       /\ target = target0

\* C9 as claimed: after one byte inside the slice of variable v in
\* objects.bin has been changed, restore_checkpoint ends with a
\* ChecksumMismatchError that names v.
C9_DamageLocalised ==
    (rpc = "done" /\ damage.file = "objects.bin" /\ damage.how = "byte")
    => /\ rout.kind = "ChecksumMismatchError"
       /\ rout.var = damage.var

\* C11 as claimed: a finished call of save_checkpoint whose selected values
\* the classifier all admits has either returned an address or raised
\* AtomicWriteError; its encode step raised nothing.
C11_SerializationTotal ==
    \A w \in Writers :
        (/\ pc[w] = "done"
         /\ AllSafe(SelectItems(loc[w].namespace, loc[w].include)))
        => /\ loc[w].prep.err = ""
           /\ outcome[w].kind \in {"returned", "AtomicWriteError"}

(***************************************************************************)
(* Properties of ExecEngine, checked under SpecExec.                       *)
(***************************************************************************)
\* The step is a call of pause, resume or kill named op.
Called(op) == ops' = ops + 1 /\ last'.op = op

\* The step is the return of run.
RunReturns == spc = "write_audit" /\ spc' = "idle"

\* The step is the natural exit of child c.
Exits(c) == procs[c].cpc = "exit" /\ procs'[c].cpc = "done"

\* C12 as claimed: each call of pause, resume or kill, each call of run and
\* each natural exit of a child appends at least one record to the audit
\* log, whatever the state of the child.
C12_AuditTotality ==
    [][(\/ Called("pause") \/ Called("resume") \/ Called("kill")
        \/ RunReturns
        \/ \E c \in Pids : Exits(c))
       => Len(audit') > Len(audit)]_vars

\* The number of records of the audit log with the given event tag.
Count(event) == Cardinality({i \in 1..Len(audit) : audit[i].event = event})

\* C13 as claimed: the audit log holds one START record for each call of
\* run, never more.
C13_OneStartPerRun == Count("START") <= runs

\* Whether a child has been recorded for the execution and has ended.
RecordedEnded == pid_file \in Pids /\ procs[pid_file].state \in {"zombie", "gone"}

\* The state tag the specification gives the execution: STOPPED when no pid
\* is recorded or the recorded child has ended, reaped or not, PAUSED when
\* it is alive and stopped, RUNNING when it is alive and not stopped.
Projection ==
    IF pid_file \notin Pids \/ RecordedEnded THEN "STOPPED"
    ELSE IF procs[pid_file].state = "stopped" THEN "PAUSED"
    ELSE "RUNNING"

\* C14 as claimed: a call of status made after run has returned reports the
\* projection of the state of the recorded child, and the recorded pid.
C14_StatusProjection ==
    [][Called("status") => /\ last'.state = Projection
                          /\ last'.pid = pid_file]_vars

\* C15 as claimed: a call of status made when the recorded child has ended
\* reports neither RUNNING nor PAUSED, whatever calls of pause, resume and
\* kill came before it.
C15_TerminalNeverLeft ==
    [][(Called("status") /\ RecordedEnded)
       => last'.state \notin {"RUNNING", "PAUSED"}]_vars

\* Whether the recorded child is alive: running or stopped.
Live == pid_file \in Pids /\ procs[pid_file].state \in {"running", "stopped"}

\* Whether record a stands before record b in the audit log.
Before(a, b) ==
    \E i \in 1..Len(audit), j \in 1..Len(audit) :
        i < j /\ audit[i].event = a /\ audit[j].event = b

C17_KillIdempotent ==
    [][Called("kill")
       => /\ last'.raised = ""
          /\ audit' = Append(audit, Record("KILL", pid_file, ""))
          /\ pid_file' = pid_file /\ ckpt_file' = ckpt_file /\ meta' = meta
          /\ \A p \in Pids : p # pid_file => procs'[p] = procs[p]
          /\ pid_file \in Pids => procs'[pid_file].state \notin {"running", "stopped"}
          /\ ~Live => procs' = procs]_vars

\* C17's case: a second kill, of a child that the first had killed, has
\* appended a second KILL record.
C17_Witness ==
    /\ last.op = "kill"
    /\ RecordedEnded
    /\ procs[pid_file].cpc = "killed"
    /\ Before("KILL", "KILL")

\* C18: on a platform without stop signals, pause and resume do not raise,
\* leave every child as it is and append PAUSE_SKIPPED and RESUME_SKIPPED.
C18_PauseRespectsPlatform ==
    [][/\ (Called("pause") /\ ~is_posix)
          => /\ last'.raised = ""
             /\ procs' = procs
             /\ audit' = Append(audit, Record("PAUSE_SKIPPED", pid_file, "os_not_supported"))
       /\ (Called("resume") /\ ~is_posix)
          => /\ last'.raised = ""
             /\ procs' = procs
             /\ audit' = Append(audit, Record("RESUME_SKIPPED", pid_file, "os_not_supported"))]_vars

\* C18's case: without stop signals a live child has been paused and
\* resumed; it runs on, both calls skipped.
C18_Witness ==
    /\ ~is_posix
    /\ last.op = "resume"
    /\ last.raised = ""
    /\ Live
    /\ procs[pid_file].state = "running"
    /\ Before("PAUSE_SKIPPED", "RESUME_SKIPPED")

\* Whether child c has written a CHECKPOINT record, or the ERROR record of
\* a checkpoint that failed.
Attempted(c) ==
    \E i \in 1..Len(audit) :
        /\ audit[i].pid = c
        /\ \/ audit[i].event = "CHECKPOINT"
           \/ audit[i].event = "ERROR" /\ audit[i].meta = "error"

\* C19 as claimed: when a child that has been inside the user function for
\* a cadence interval or longer is killed, it has attempted a checkpoint
\* and the checkpoint file exists, for the next run to load.
C19_PeriodicCheckpoint ==
    [][\A c \in Pids :
          (/\ procs[c].cpc = "user"
           /\ Due(procs[c])
           /\ procs'[c].cpc = "killed")
          => /\ Attempted(c)
             /\ ckpt_file.exists]_vars

\* C20: every step leaves each record of the audit log where it was and as
\* it was; the log only grows.
C20_AuditAppendOnly ==
    [][/\ Len(audit') >= Len(audit)
       /\ SubSeq(audit', 1, Len(audit)) = audit]_vars

\* C20's case: the execution was run again; the log holds the records of
\* the first child, then a KILL of the supervisor, then records of the
\* second child.
C20_Witness ==
    \E i \in 1..Len(audit), j \in 1..Len(audit), k \in 1..Len(audit) :
        /\ i < j /\ j < k
        /\ audit[i].pid = 1 /\ audit[i].event = "START"
        /\ audit[j].event = "KILL"
        /\ audit[k].pid = 2 /\ audit[k].event = "EXIT"

\* The keys restore_checkpoint is to insert: prefix + name for each variable
\* of the manifest of the checkpoint, in manifest order.
PrefixedNames ==
    LET variables == DictGet(rloc.manifest, KeyVariables).items
    IN  [i \in 1..Len(variables) |-> PyStr(prefix \o variables[i].s)]

\* C22: a restore_checkpoint that returns has returned the prefixed names of
\* the manifest variables in manifest order; the target holds each of them
\* and, besides them, the keys it held before and no other, each such key
\* with the value it had.
C22_RestoreOrderAndFrame ==
    (rpc = "done" /\ rout.kind = "returned")
    => /\ rout.restored = PrefixedNames
       /\ \A i \in 1..Len(PrefixedNames) : DictHas(target, PrefixedNames[i])
       /\ \A i \in 1..Len(target.keys) :
             \/ \E j \in 1..Len(PrefixedNames) : target.keys[i] = PrefixedNames[j]
             \/ DictHas(target0, target.keys[i])
       /\ \A i \in 1..Len(target0.keys) :
             \/ \E j \in 1..Len(PrefixedNames) : target0.keys[i] = PrefixedNames[j]
             \/ /\ DictHas(target, target0.keys[i])
                /\ DictGet(target, target0.keys[i]) = target0.items[i]

\* C22's case: two variables restored under the prefix "r_" into a target
\* that held x and q, which it still holds beside r_x and r_y.
C22_Witness ==
    /\ rpc = "done"
    /\ rout.kind = "returned"
    /\ prefix = <<114, 95>>
    /\ Len(rout.restored) = 2
    /\ Len(target0.keys) = 2
    /\ Len(target.keys) = 4

(***************************************************************************)
(* Properties of the child's start, checked under SpecRehydrate.           *)
(***************************************************************************)
\* Child c passes lines 90 to 97 in this step.
Loads(c) ==
    /\ procs[c].cpc = "boot"
    /\ procs'[c].cpc \notin {"boot", "killed"}

\* Child c reaches line 115 in this step: func is invoked.
Invokes(c) == procs[c].cpc # "user" /\ procs'[c].cpc = "user"

\* C23: a child that starts when checkpoint.pkl exists either loads it into
\* its context and appends CHECKPOINT_LOADED, or, when the load fails,
\* appends ERROR, stays alive and keeps an empty context; func is invoked
\* only after that step, with the context that step left.
C23_RehydrationOnSpawn ==
    [][\A c \in Pids :
          /\ (Loads(c) /\ ckpt_file.exists /\ ~pickle_load(ckpt_file.pickle).raised)
             => /\ audit' = Append(audit, Record("CHECKPOINT_LOADED", c, ""))
                /\ procs'[c].context = pickle_load(ckpt_file.pickle).context
                /\ procs'[c].state = "running" /\ procs'[c].cpc = "start"
          /\ (Loads(c) /\ ckpt_file.exists /\ pickle_load(ckpt_file.pickle).raised)
             => /\ audit' = Append(audit, Record("ERROR", c, "error"))
                /\ procs'[c].context = EmptyContext
                /\ procs'[c].state = "running" /\ procs'[c].cpc = "start"
          /\ Invokes(c)
             => /\ procs[c].cpc = "start"
                /\ procs'[c].context = procs[c].context]_vars

\* C23's case: a child whose load of a damaged checkpoint.pkl failed is
\* inside func with an empty context, its ERROR record in the log.
C23_Witness ==
    \E c \in Pids :
        /\ procs[c].state = "running"
        /\ procs[c].cpc = "user"
        /\ procs[c].context = EmptyContext
        /\ ckpt_file.exists
        /\ \E k \in 1..Len(audit) : audit[k] = Record("ERROR", c, "error")

(***************************************************************************)
(* Properties of the rolling checkpoint and of kill when run is called     *)
(* again while a child is alive, checked under SpecRolling.                *)
(***************************************************************************)
\* The attempt of child c is recorded as failed in this step.
RecordsFailure(c) ==
    /\ procs[c].cpc = "failed_attempt"
    /\ procs'[c].cpc \notin {"failed_attempt", "killed"}

\* C25: a child whose checkpoint attempt failed appends ERROR and not
\* CHECKPOINT, has not changed checkpoint.pkl in the attempt, and goes on,
\* alive, to line 117, from where its next step is EXIT and a normal end.
C25_FailedCheckpointNonFatal ==
    [][\A c \in Pids :
          /\ RecordsFailure(c)
             => /\ audit' = Append(audit, Record("ERROR", c, "error"))
                /\ ~touched[c]
                /\ procs'[c].state = "running" /\ procs'[c].cpc = "exit"
          /\ (procs[c].cpc = "exit" /\ procs'[c].cpc \notin {"exit", "killed"})
             => /\ audit' = Append(audit, Record("EXIT", c, ""))
                /\ procs'[c].cpc = "done"]_vars

\* Whether the data are one whole pickle of a context.
Snapshot(data) == \E i \in 0..Limit : data = pickle_dumps([i |-> i])

\* C26: checkpoint.pkl is at every moment absent or one whole snapshot.
C26_RollingReplacedAtomically == ckpt_file.exists => Snapshot(ckpt_file.pickle)

\* C27: after a kill no child of the execution is alive.
C27_KillReachesEveryChild ==
    [][Called("kill")
       => \A c \in Pids : procs'[c].state \notin {"running", "stopped"}]_vars

(***************************************************************************)
(* Properties of the end of a child, checked under SpecExec.               *)
(***************************************************************************)
\* Whether the audit log holds the record (event, c, m).
Wrote(c, event, m) == \E k \in 1..Len(audit) : audit[k] = Record(event, c, m)

\* The tags only the supervisor writes, and START, which the child writes
\* before func.
BeforeFuncOrSupervisor ==
    {"START", "PAUSE", "RESUME", "KILL", "PAUSE_SKIPPED", "RESUME_SKIPPED"}

\* Whether EXIT is the last record the child c wrote.
ExitIsLast(c) ==
    \E k \in 1..Len(audit) :
        /\ audit[k] = Record("EXIT", c, "")
        /\ \A j \in (k + 1)..Len(audit) :
              audit[j].pid = c => audit[j].event \in BeforeFuncOrSupervisor

\* C24 as claimed: a child that ended normally wrote EXIT last and no ERROR
\* with a traceback; a child whose user function failed (it ended with a
\* non-zero exit status, not by a signal) wrote ERROR with a traceback and
\* no EXIT; no child wrote both.
C24_ChildTerminationEvents ==
    \A c \in Pids :
        /\ procs[c].cpc = "done"
           => ExitIsLast(c) /\ ~Wrote(c, "ERROR", "traceback")
        /\ procs[c].cpc = "failed"
           => Wrote(c, "ERROR", "traceback") /\ ~Wrote(c, "EXIT", "")
        /\ ~(Wrote(c, "EXIT", "") /\ Wrote(c, "ERROR", "traceback"))

(***************************************************************************)
(* Properties of the audit timestamps, checked under SpecStamps.           *)
(***************************************************************************)
\* C21 as claimed: the timestamps of the records of audit.log never
\* decrease in file order.
C21_AuditOrderedByTime ==
    \A i \in 1..Len(stamps), j \in 1..Len(stamps) :
        i < j => stamps[i] <= stamps[j]

====
